---- MODULE Spec2Model ----
(***************************************************************************)
(* Model of the chat front-end's request-orchestration layer:              *)
(*   api/generate.js  - payload builder and model invoker (POST handler)   *)
(*   src/App.jsx      - client payload builder, uploader, handleSendMessage *)
(***************************************************************************)
EXTENDS Integers, Sequences, FiniteSets, TLC

(***************************************************************************)
(* State.  Each component has its own variables; a specification runs one   *)
(* component and leaves the variables of the others alone.                  *)
(***************************************************************************)
VARIABLES
  h_pc,        \* where the handler is: "idle", "token", "first", "fallback", "done"
  h_req,       \* the request being served: method, origin, parsed body
  h_headers,   \* response headers set so far
  h_body,      \* requestBody built for the upstream calls (<<>> before it is built)
  h_calls,     \* upstream generateContent calls issued, in order, with their results
  h_resp       \* the response sent (<<>> while none)

hvars == <<h_pc, h_req, h_headers, h_body, h_calls, h_resp>>

VARIABLES
  b_in,         \* the input: a client message or a raw request body
  b_stage,      \* "input", "collected", "built", "served"
  b_sanitized,  \* collectImages' result
  b_parts,      \* buildGeminiParts' result
  b_body        \* buildRequestBody's result (<<>> while none)

bvars == <<b_in, b_stage, b_sanitized, b_parts, b_body>>

VARIABLES
  s_pc,        \* where handleSendMessage is: "idle", "probe", "upload", "ensure",
               \* "writeUser", "generate", "stream", "writeAssistant", "returned", "thrown"
  s_in,        \* the arguments of the send in progress (<<>> while none)
  s_ops,       \* network operations and status callbacks of the send in progress, in order
  s_store,     \* the document store: s_store[id] is the messages of chat id
  s_ui,        \* React state: chats, activeChatId, isGenerating, error, streaming timer
  s_closure,   \* the chats and activeChatId the running handler closed over
  s_chatId,    \* chatId of the send in progress (0 while none)
  s_cors,      \* corsTestCache entry of the primary bucket: "none", "ok", "bad"
  s_resp,      \* the /api/generate response of the send in progress (<<>> while none)
  s_sends      \* sends started so far

svars == <<s_pc, s_in, s_ops, s_store, s_ui, s_closure, s_chatId, s_cors, s_resp, s_sends>>

VARIABLES
  u_pc,        \* where uploadAttachmentsToStorage is: "idle", "uploadBytes",
               \* "getDownloadURL", "wait", "resolved", "rejected"
  u_env,       \* VITE_FIREBASE_STORAGE_BUCKET of the build
  u_batch,     \* the attachments argument
  u_index,     \* index of the attachment being uploaded (0 while none)
  u_bucket,    \* position in DEFAULT_STORAGE_CANDIDATES of the bucket being tried
  u_attempt,   \* attempt of the while loop
  u_local,     \* the loop's succeeded, lastError, lastClassification
  u_results,   \* results
  u_calls,     \* onStatusChange calls for the attachment being uploaded, in order
  u_log,       \* attempts made on the bucket being tried: wait before, outcome
  u_tried,     \* buckets left behind for this attachment: attempts made, failures seen
  u_thrown     \* the error the call rejected with (<<>> while none)

uvars == <<u_pc, u_env, u_batch, u_index, u_bucket, u_attempt, u_local, u_results,
           u_calls, u_log, u_tried, u_thrown>>

VARIABLES
  c_error,     \* the error handed to classifyStorageError (Null: none)
  c_class,     \* its classification ("none" before it is computed)
  c_retry      \* the retry loop's isRetryable for it ("none" before it is computed)

cvars == <<c_error, c_class, c_retry>>

VARIABLES
  d_pc,        \* the conversation's storage cycle: "ui" (held in React state),
               \* "stored" (written, snapshot pending), "off"
  d_chat,      \* the messages of the conversation as the UI holds them
  d_src,       \* the messages handed to the last setDoc
  d_doc,       \* the messages field of the stored document
  d_hist       \* every stored representation written so far, in order

dvars == <<d_pc, d_chat, d_src, d_doc, d_hist>>

VARIABLES
  t_pc,        \* where processImageFile is: "idle", "read", "decode", "settle",
               \* "fallbackRead", "catchRead", "returned", "rejected", "off"
  t_file,      \* the selected file: its type and size
  t_image,     \* what the browser makes of the file: whether it decodes, its
               \* dimensions, and how long each encoding of it comes out
  t_gen,       \* generateCompressedBase64's promise: its state ("none", "pending",
               \* "rejected", "resolved") and the value it resolved with
  t_calls,     \* the canvas.toDataURL calls made, in order
  t_attempts,  \* generateCompressedBase64's attempts array
  t_reads,     \* the outcome of every readFileAsBase64 call, in order
  t_result     \* what processImageFile returned (<<>> while none)

tvars == <<t_pc, t_file, t_image, t_gen, t_calls, t_attempts, t_reads, t_result>>

VARIABLES
  k_flags,        \* isGenerating (App), isUploading and isProcessingFiles (Chat)
  k_input,        \* whether the textarea holds text
  k_attachments,  \* how many attachments the composer holds
  k_supports,     \* supportsImages of the selected model
  k_chat,         \* the chat that is open
  k_sends,        \* every send started so far: its phase and whether it carried images
  k_timers        \* pending setTimeout callbacks of finished submits

kvars == <<k_flags, k_input, k_attachments, k_supports, k_chat, k_sends, k_timers>>

VARIABLES
  g_account,    \* GOOGLE_SERVICE_ACCOUNT: "ok", "missing", "incomplete"
  g_now,        \* Math.floor(Date.now() / 1000), counted from the start of the instance
  g_ticks,      \* how often the clock has advanced
  g_cache,      \* cachedAccessToken and cachedAccessTokenExpiry
  g_calls,      \* every getAccessToken call so far: when it started, where it is,
                \* the exchange it made (0: none) and what it returned
  g_exchanges   \* token exchanges requested from token_uri so far

gvars == <<g_account, g_now, g_ticks, g_cache, g_calls, g_exchanges>>

VARIABLES
  e_in,    \* the value handed to estimateBase64Bytes
  e_out    \* what it returned (<<>> before the call)

evars == <<e_in, e_out>>

VARIABLES
  a_mounted,   \* whether the Chat component is mounted
  a_supports,  \* supportsImages of the selected model
  a_phase,     \* the send in flight: "idle", "uploading" (isUploading), "generating"
  a_input,     \* the textarea: <<>> when empty, else when its text was typed
  a_list,      \* attachments: id, mimeType, data, previewUrl and when it was added
  a_session,   \* sessionStorage['chat.pendingAttachments'] (<<>>: no item)
  a_urls,      \* object URLs created so far, by handle: "live" or "revoked"
  a_proc,      \* the handleFileChange call awaiting Promise.all (<<>>: none)
  a_stray,     \* processImageFile calls still running for a call that is over
  a_rejected,  \* what the last merge rejected as duplicates, and against what
  a_done,      \* sends that completed successfully so far
  a_timers     \* completed sends whose setTimeout callback has not run yet

avars == <<a_mounted, a_supports, a_phase, a_input, a_list, a_session, a_urls, a_proc, a_stray, a_rejected, a_done, a_timers>>

VARIABLES
  p_user,      \* the signed-in user (0: none)
  p_session,   \* how many sign-ins there have been
  p_loaded,    \* isSettingsLoaded
  p_settings,  \* settings
  p_loads,     \* loadUserPreferences calls awaiting getDoc: whose, and of which sign-in
  p_timers,    \* setTimeout callbacks of the save effect not yet run or cleared
  p_store,     \* preferences field of each user's document (<<>>: no document)
  p_writes     \* setDoc calls on users/{uid} issued so far

pvars == <<p_user, p_session, p_loaded, p_settings, p_loads, p_timers, p_store, p_writes>>

\* what the steps of each component leave unchanged
hOthers == <<bvars, svars, uvars, cvars, dvars, tvars, kvars, gvars, evars, avars, pvars>>

bOthers == <<hvars, svars, uvars, cvars, dvars, tvars, kvars, gvars, evars, avars, pvars>>

sOthers == <<hvars, bvars, uvars, cvars, dvars, tvars, kvars, gvars, evars, avars, pvars>>

uOthers == <<hvars, bvars, svars, cvars, dvars, tvars, kvars, gvars, evars, avars, pvars>>

cOthers == <<hvars, bvars, svars, uvars, dvars, tvars, kvars, gvars, evars, avars, pvars>>

dOthers == <<hvars, bvars, svars, uvars, cvars, tvars, kvars, gvars, evars, avars, pvars>>

tOthers == <<hvars, bvars, svars, uvars, cvars, dvars, kvars, gvars, evars, avars, pvars>>

kOthers == <<hvars, bvars, svars, uvars, cvars, dvars, tvars, gvars, evars, avars, pvars>>

gOthers == <<hvars, bvars, svars, uvars, cvars, dvars, tvars, kvars, evars, avars, pvars>>

eOthers == <<hvars, bvars, svars, uvars, cvars, dvars, tvars, kvars, gvars, avars, pvars>>

aOthers == <<hvars, bvars, svars, uvars, cvars, dvars, tvars, kvars, gvars, evars, pvars>>

pOthers == <<hvars, bvars, svars, uvars, cvars, dvars, tvars, kvars, gvars, evars, avars>>

vars == <<hvars, bvars, svars, uvars, cvars, dvars, tvars, kvars, gvars, evars, avars, pvars>>

(***************************************************************************)
(* Strings.  A JavaScript string is a sequence of runs [c, n]: the chunk c *)
(* repeated n times.  A chunk is one character (" ", "=", "A", "!") or an  *)
(* opaque word without whitespace ("image/png").  Long base64 payloads are  *)
(* single runs with a large n, so that lengths keep their real magnitude.  *)
(***************************************************************************)
Run(c, n) == [c |-> c, n |-> n]

S(tok) == <<Run(tok, 1)>>

EmptyStr == <<>>

Whitespace == {" ", "\n"}

Base64Alphabet == {"A", "B"}

RECURSIVE Canon(_)
\* adjacent runs of the same chunk are one run
Canon(s) ==
  IF Len(s) < 2 THEN s
  ELSE IF s[1].c = s[2].c
       THEN Canon(<<Run(s[1].c, s[1].n + s[2].n)>> \o SubSeq(s, 3, Len(s)))
       ELSE <<s[1]>> \o Canon(Tail(s))

RECURSIVE StrLen(_)
StrLen(s) == IF s = <<>> THEN 0 ELSE Head(s).n + StrLen(Tail(s))

RECURSIVE TrimStart(_)
TrimStart(s) ==
  IF s = <<>> THEN <<>>
  ELSE IF Head(s).c \in Whitespace THEN TrimStart(Tail(s)) ELSE s

RECURSIVE TrimEnd(_)
TrimEnd(s) ==
  IF s = <<>> THEN <<>>
  ELSE IF s[Len(s)].c \in Whitespace THEN TrimEnd(SubSeq(s, 1, Len(s) - 1)) ELSE s

\* String.prototype.trim
Trim(s) == TrimEnd(TrimStart(s))

IsNotWs(r) == r.c \notin Whitespace

\* s.replace(/\s/g, '')
RemoveWhitespace(s) == Canon(SelectSeq(s, IsNotWs))

RECURSIVE StripTrailingEq(_)
\* s.replace(/=+$/, '')
StripTrailingEq(s) ==
  IF s = <<>> THEN <<>>
  ELSE IF s[Len(s)].c = "=" THEN StripTrailingEq(SubSeq(s, 1, Len(s) - 1)) ELSE s

\* /^[A-Za-z0-9+/]+={0,2}$/.test(s)
MatchesBase64(s) ==
  LET body == StripTrailingEq(s)
      pad  == StrLen(s) - StrLen(body)
  IN  /\ body # <<>>
      /\ \A i \in 1..Len(body) : body[i].c \in Base64Alphabet
      /\ pad <= 2

\* Buffer.from(s, 'base64').length for a string that matches the pattern
Base64DecodedLength(s) == (StrLen(StripTrailingEq(s)) * 3) \div 4

(***************************************************************************)
(* JavaScript values: a tag and a payload that is always a tuple.          *)
(***************************************************************************)
Undef == [t |-> "undefined", v |-> <<>>]

Null == [t |-> "null", v |-> <<>>]

StrV(s) == [t |-> "string", v |-> s]

\* a finite number, kept in tenths (0.7 is 7, 1024 is 10240)
NumV(n) == [t |-> "number", v |-> <<n>>]

\* NaN or +-Infinity: typeof is 'number' but Number.isFinite is false
NonFinite == [t |-> "nonfinite", v |-> <<>>]

IsNumber(x) == x.t \in {"number", "nonfinite"}

IsFiniteNumber(x) == x.t = "number"

Obj(r) == [t |-> "object", v |-> <<r>>]

Arr(seq) == [t |-> "array", v |-> seq]

IsString(x) == x.t = "string"

IsArray(x) == x.t = "array"

\* x && typeof x === 'object' (an array is an object without the named fields)
IsObject(x) == x.t \in {"object", "array"}

\* x.name, undefined when the property is missing
Prop(x, name) ==
  IF x.t = "object" /\ name \in DOMAIN x.v[1] THEN x.v[1][name] ELSE Undef

\* a ?? b
Coalesce(a, b) == IF a.t \in {"undefined", "null"} THEN b ELSE a

\* typeof x === 'string' && x.trim().length > 0
IsNonBlankString(x) == IsString(x) /\ Trim(x.v) # <<>>

RECURSIVE MapSeq(_, _)
MapSeq(F(_), s) == IF s = <<>> THEN <<>> ELSE <<F(Head(s))>> \o MapSeq(F, Tail(s))

RECURSIVE FlatMapSeq(_, _)
FlatMapSeq(F(_), s) == IF s = <<>> THEN <<>> ELSE F(Head(s)) \o FlatMapSeq(F, Tail(s))

Range(s) == {s[i] : i \in 1..Len(s)}

\* template-literal concatenation
Concat(a, b) == Canon(a \o b)

(***************************************************************************)
(* api/generate.js: the server side of the payload builder.                *)
(***************************************************************************)
DEFAULT_MIME == S("image/png")

GREETING == S("Hello Gemini!")

TextPart(s) == [text |-> s]

InlinePart(img) == [inline_data |-> img]

IsInlinePart(p) == "inline_data" \in DOMAIN p

IsTextPart(p) == "text" \in DOMAIN p

\* one element of sanitizeImageParts' map: <<>> for null, <<image>> otherwise
SanitizeImageEntry(image) ==
  IF ~IsObject(image) THEN <<>>
  ELSE LET data == Prop(image, "data")
           rawData == IF IsString(data) THEN Trim(data.v) ELSE EmptyStr
           normalizedData == RemoveWhitespace(rawData)
           mime == Prop(image, "mimeType")
       IN  IF rawData = EmptyStr THEN <<>>
           ELSE IF ~MatchesBase64(normalizedData) THEN <<>>
           ELSE IF Base64DecodedLength(normalizedData) = 0 THEN <<>>
           ELSE <<[mime_type |-> IF IsNonBlankString(mime) THEN Trim(mime.v) ELSE DEFAULT_MIME,
                   data |-> normalizedData]>>

sanitizeImageParts(rawImages) ==
  IF ~IsArray(rawImages) THEN <<>> ELSE FlatMapSeq(SanitizeImageEntry, rawImages.v)

\* one iteration of sanitizeParts' forEach: the parts it pushes
SanitizePartEntry(part) ==
  IF ~IsObject(part) THEN <<>>
  ELSE IF IsString(Prop(part, "text"))
       THEN LET text == Trim(Prop(part, "text").v)
            IN  IF text # EmptyStr THEN <<TextPart(text)>> ELSE <<>>
       ELSE LET inlineCandidate == Coalesce(Prop(part, "inline_data"), Prop(part, "inlineData"))
            IN  IF ~IsObject(inlineCandidate) THEN <<>>
                ELSE LET d  == Prop(inlineCandidate, "data")
                         b  == Prop(inlineCandidate, "base64")
                         m1 == Prop(inlineCandidate, "mime_type")
                         m2 == Prop(inlineCandidate, "mimeType")
                         entry == Obj([
                           data |-> IF IsString(d) THEN d
                                    ELSE IF IsString(b) THEN b ELSE StrV(EmptyStr),
                           mimeType |-> IF IsNonBlankString(m1) THEN StrV(Trim(m1.v))
                                        ELSE IF IsNonBlankString(m2) THEN StrV(Trim(m2.v))
                                        ELSE Undef])
                         sanitizedInline == sanitizeImageParts(Arr(<<entry>>))
                     IN  IF sanitizedInline # <<>>
                         THEN <<InlinePart(sanitizedInline[1])>> ELSE <<>>

sanitizeParts(rawParts) ==
  IF ~IsArray(rawParts) THEN <<>> ELSE FlatMapSeq(SanitizePartEntry, rawParts.v)

RECURSIVE SanitizeContentsFrom(_, _)
\* sanitizeContents' forEach from 0-based position index on
SanitizeContentsFrom(rest, index) ==
  IF rest = <<>> THEN <<>>
  ELSE LET content == Head(rest)
           r == Prop(content, "role")
           role == IF IsNonBlankString(r) THEN Trim(r.v)
                   ELSE IF index = 0 THEN S("user") ELSE S("assistant")
           parts == sanitizeParts(Prop(content, "parts"))
           here == IF IsObject(content) /\ parts # <<>>
                   THEN <<[role |-> role, parts |-> parts]>> ELSE <<>>
       IN  here \o SanitizeContentsFrom(Tail(rest), index + 1)

sanitizeContents(rawContents) ==
  IF ~IsArray(rawContents) THEN <<>> ELSE SanitizeContentsFrom(rawContents.v, 0)

\* `${mime_type ?? 'image/png'}-${data ?? ''}`
InlineSignature(img) == Concat(Concat(img.mime_type, S("-")), img.data)

RECURSIVE AppendMissingInline(_, _)
\* the inlineImages.forEach of the merge branch: push what existingInline lacks
AppendMissingInline(parts, inlineImages) ==
  IF inlineImages = <<>> THEN parts
  ELSE LET existingInline ==
             {InlineSignature(parts[i].inline_data) :
                i \in {j \in 1..Len(parts) : IsInlinePart(parts[j])}}
           inlineImage == Head(inlineImages)
       IN  IF InlineSignature(inlineImage) \in existingInline
           THEN AppendMissingInline(parts, Tail(inlineImages))
           ELSE AppendMissingInline(Append(parts, InlinePart(inlineImage)), Tail(inlineImages))

\* sanitizedContents.find((content) => content.role === 'user') ?? sanitizedContents[0]
FirstUserIndex(sanitizedContents) ==
  LET hits == {i \in 1..Len(sanitizedContents) : sanitizedContents[i].role = S("user")}
  IN  IF hits = {} THEN 1 ELSE CHOOSE i \in hits : \A j \in hits : i <= j

DefaultTemperature == 7

DefaultTopP == 9

DefaultMaxOutputTokens == 10240

sanitizeSystemInstruction(rawInstruction) ==
  IF rawInstruction.t \in {"undefined", "null"} \/ rawInstruction = StrV(EmptyStr) THEN <<>>
  ELSE IF IsString(rawInstruction)
       THEN IF Trim(rawInstruction.v) = EmptyStr THEN <<>>
            ELSE <<[role |-> S("system"), parts |-> <<TextPart(Trim(rawInstruction.v))>>]>>
  ELSE IF ~IsObject(rawInstruction) THEN <<>>
  ELSE LET r == Prop(rawInstruction, "role")
           role == IF IsNonBlankString(r) THEN Trim(r.v) ELSE S("system")
           p == Prop(rawInstruction, "parts")
           t == Prop(rawInstruction, "text")
           candidateParts ==
             IF IsArray(p) /\ Len(p.v) > 0 THEN p
             ELSE Arr(<<Obj([text |-> IF IsString(t) THEN t ELSE StrV(EmptyStr)])>>)
           sanitizedParts == sanitizeParts(candidateParts)
       IN  IF sanitizedParts = <<>> THEN <<>>
           ELSE <<[role |-> role, parts |-> sanitizedParts]>>

\* the contents list of buildRequestBody
BuildContents_NoGreeting(userPrompt, images, contents) ==
  LET textParts == IF IsNonBlankString(userPrompt)
                   THEN <<TextPart(Trim(userPrompt.v))>> ELSE <<>>
      inlineImages == sanitizeImageParts(images)
      fallbackParts == textParts \o MapSeq(InlinePart, inlineImages)
      sanitizedContents == sanitizeContents(contents)
  IN  IF sanitizedContents = <<>>
      THEN <<[role |-> S("user"), parts |-> fallbackParts]>>
      ELSE IF inlineImages # <<>>
           THEN LET k == FirstUserIndex(sanitizedContents)
                IN  [sanitizedContents EXCEPT
                       ![k].parts = AppendMissingInline(@, inlineImages)]
           ELSE sanitizedContents

BuildContents(userPrompt, images, contents) ==
  LET textParts == IF IsNonBlankString(userPrompt)
                   THEN <<TextPart(Trim(userPrompt.v))>> ELSE <<>>
      inlineImages == sanitizeImageParts(images)
      fallbackParts == textParts \o MapSeq(InlinePart, inlineImages)
      sanitizedContents == sanitizeContents(contents)
  IN  IF sanitizedContents = <<>>
      THEN <<[role |-> S("user"),
              parts |-> IF fallbackParts = <<>> THEN <<TextPart(GREETING)>>
                        ELSE fallbackParts]>>
      ELSE IF inlineImages # <<>>
           THEN LET k == FirstUserIndex(sanitizedContents)
                IN  [sanitizedContents EXCEPT
                       ![k].parts = AppendMissingInline(@, inlineImages)]
           ELSE sanitizedContents

buildRequestBody(args) ==
  [contents |-> BuildContents(args.userPrompt, args.images, args.contents),
   generationConfig |->
     [temperature |-> IF IsNumber(args.temperature) THEN args.temperature
                      ELSE NumV(DefaultTemperature),
      topP |-> IF IsNumber(args.topP) THEN args.topP ELSE NumV(DefaultTopP),
      maxOutputTokens |-> IF IsFiniteNumber(args.maxOutputTokens) THEN args.maxOutputTokens
                          ELSE NumV(DefaultMaxOutputTokens)],
   systemInstruction |-> sanitizeSystemInstruction(args.systemInstruction)]

(***************************************************************************)
(* api/generate.js: the POST handler (model invoker with one fallback hop). *)
(***************************************************************************)
DEFAULT_MODEL == S("gemini-2.5-flash")

ALLOWED_ORIGINS ==
  <<"https://ai-app-vert-chi.vercel.app",
    "https://ai-88rcx293y-giovannim-makers-projects.vercel.app",
    "https://ai-6zj5iktzo-giovannim-makers-projects.vercel.app",
    "https://ai-z0a43mww7-giovannim-makers-projects.vercel.app",
    "http://localhost:5173",
    "http://localhost:4173">>

\* Origin headers tried: none, two listed ones, one that is not listed
RequestOrigins == {"", ALLOWED_ORIGINS[1], ALLOWED_ORIGINS[5], "https://evil.example"}

RequestMethods == {"POST", "OPTIONS", "GET"}

\* values of the body's model field
RequestModels ==
  {Undef, NumV(10), StrV(EmptyStr), StrV(S(" ")), StrV(DEFAULT_MODEL),
   StrV(S(" ") \o DEFAULT_MODEL \o S(" ")), StrV(S("gemini-2.5-pro")),
   StrV(S("gemini-exp") \o S("\n"))}

PngA == Obj([data |-> StrV(<<Run("A", 8)>>), mimeType |-> StrV(S("image/png"))])

\* parsed request bodies without their model field
RequestPayloads ==
  { [x \in {} |-> Undef],
    [userPrompt |-> StrV(S("Hello"))],
    [userPrompt |-> StrV(S("Hello")),
     images |-> Arr(<<PngA>>),
     contents |-> Arr(<<Obj([role |-> StrV(S("user")),
                             parts |-> Arr(<<Obj([text |-> StrV(S("Hello"))])>>)])>>),
     temperature |-> NumV(8), top_p |-> NumV(9), maxOutputTokens |-> NumV(20480),
     systemInstruction |-> StrV(S("be brief"))],
    [userPrompt |-> StrV(S("Hello")), top_p |-> NumV(5), max_output_tokens |-> NumV(5120)],
    [userPrompt |-> StrV(S("Hello")), topP |-> NumV(5), maxOutputTokens |-> NumV(5120)] }

UpstreamStatuses == {400, 403, 404, 429, 500}

MsgModelNotFound == S("models/gemini-exp is not found for API version v1beta")

MsgEntityNotFound == S("Requested entity was not  found.")

MsgModelOverloaded == S("The MODEL is overloaded.")

MsgQuota == S("Quota exceeded")

\* `Gemini API returned ${response.status}` when the error envelope has no message
MsgStatusOnly == S("Gemini API returned <status>")

UpstreamMessages ==
  {MsgModelNotFound, MsgEntityNotFound, MsgModelOverloaded, MsgQuota, MsgStatusOnly}

\* /model/i.test(message)
TestModelPattern(message) == message \in {MsgModelNotFound, MsgModelOverloaded}

\* /not\s+found/i.test(message)
TestNotFoundPattern(message) == message \in {MsgModelNotFound, MsgEntityNotFound}

MsgFetchFailed == S("fetch failed")

\* what one callGeminiRest can come to: a reply, a failure it returns, or fetch rejecting
UpstreamResults ==
  {[ok |-> TRUE, text |-> t] : t \in {S("Ciao"), EmptyStr}}
  \cup {[ok |-> FALSE, status |-> st, message |-> m] :
          st \in UpstreamStatuses, m \in UpstreamMessages}
  \cup {[thrown |-> MsgFetchFailed]}

IsThrown(r) == "thrown" \in DOMAIN r

IsOk(r) == ~IsThrown(r) /\ r.ok

IsFailure(r) == ~IsThrown(r) /\ ~r.ok

applyCorsHeaders_Reflects(origin) ==
  [allowOrigin |-> origin, vary |-> "Origin"]

applyCorsHeaders(origin) ==
  IF origin # "" /\ origin \in Range(ALLOWED_ORIGINS)
  THEN [allowOrigin |-> origin, vary |-> "Origin"]
  ELSE IF Len(ALLOWED_ORIGINS) > 0
       THEN [allowOrigin |-> ALLOWED_ORIGINS[1], vary |-> "Origin"]
       ELSE [vary |-> "Origin"]

\* typeof model === 'string' && model.trim().length > 0 ? model.trim() : DEFAULT_MODEL
RequestedModel(model) == IF IsNonBlankString(model) THEN Trim(model.v) ELSE DEFAULT_MODEL

\* mutant: a 400 is not taken as model-unavailable
isModelUnavailable_No400(result) ==
  \/ result.status = 404
  \/ TestModelPattern(result.message)
  \/ TestNotFoundPattern(result.message)

isModelUnavailable(result) ==
  \/ result.status = 404
  \/ result.status = 400
  \/ TestModelPattern(result.message)
  \/ TestNotFoundPattern(result.message)

\* mutant: the fallback is tried whatever model was requested
ShouldFallback_AnyModel(requestedModel, result) == isModelUnavailable(result)

\* the handler falls back exactly when this holds of the first result
ShouldFallback(requestedModel, result) ==
  requestedModel # DEFAULT_MODEL /\ isModelUnavailable(result)

\* the destructuring of parseBody(req.body) handed to buildRequestBody
BuildArgs(body) ==
  [userPrompt |-> Prop(body, "userPrompt"),
   images |-> Prop(body, "images"),
   temperature |-> Prop(body, "temperature"),
   topP |-> Prop(body, "top_p"),
   maxOutputTokens |-> Prop(body, "maxOutputTokens"),
   contents |-> Prop(body, "contents"),
   systemInstruction |-> Prop(body, "systemInstruction")]

JsonReply(text, modelUsed, fallbackApplied) ==
  [status |-> 200,
   json |-> [reply |-> text, modelUsed |-> modelUsed, fallbackApplied |-> fallbackApplied]]

JsonError(status, message) == [status |-> status, json |-> [error |-> message]]

HandlerInit ==
  /\ h_pc = "idle"
  /\ h_req = <<>>
  /\ h_headers = <<>>
  /\ h_body = <<>>
  /\ h_calls = <<>>
  /\ h_resp = <<>>

\* handler entry up to `await getAccessToken()`
Receive(method, origin, body) ==
  /\ h_pc = "idle"
  /\ h_req' = [method |-> method, origin |-> origin, body |-> body]
  /\ h_body' = <<>>
  /\ h_calls' = <<>>
  /\ IF method = "OPTIONS"
     THEN /\ h_headers' = <<applyCorsHeaders(origin)>>
          /\ h_resp' = <<[status |-> 200, json |-> [ended |-> TRUE]]>>
          /\ h_pc' = "done"
     ELSE IF method # "POST"
     THEN /\ h_headers' = <<applyCorsHeaders(origin)>>
          /\ h_resp' = <<JsonError(405, S("Method Not Allowed. Use POST."))>>
          /\ h_pc' = "done"
     ELSE /\ h_headers' = <<applyCorsHeaders(origin)>>
          /\ h_resp' = <<>>
          /\ h_pc' = "token"
  /\ UNCHANGED hOthers

ReceiveRequest ==
  \E method \in RequestMethods, origin \in RequestOrigins,
     model \in RequestModels, payload \in RequestPayloads :
    Receive(method, origin,
            Obj(IF model = Undef THEN payload
                ELSE [k \in DOMAIN payload \cup {"model"} |->
                        IF k = "model" THEN model ELSE payload[k]]))

\* getAccessToken rejects: the catch block answers 500
TokenFails ==
  /\ h_pc = "token"
  /\ h_resp' = <<JsonError(500, S("Missing GOOGLE_SERVICE_ACCOUNT environment variable"))>>
  /\ h_pc' = "done"
  /\ UNCHANGED <<h_req, h_headers, h_body, h_calls, hOthers>>

\* getAccessToken resolves: build the request body and issue the first upstream call
TokenOk ==
  /\ h_pc = "token"
  /\ h_body' = <<buildRequestBody(BuildArgs(h_req.body))>>
  /\ h_calls' = <<[modelId |-> RequestedModel(Prop(h_req.body, "model")),
                   requestBody |-> h_body'[1]]>>
  /\ h_pc' = "first"
  /\ UNCHANGED <<h_req, h_headers, h_resp, hOthers>>

\* the first callGeminiRest settles with `result`
FirstSettles(result) ==
  LET requestedModel == RequestedModel(Prop(h_req.body, "model")) IN
  /\ h_pc = "first"
  /\ IF IsThrown(result)
     THEN /\ h_resp' = <<JsonError(500, result.thrown)>>
          /\ h_calls' = [h_calls EXCEPT ![1] = [modelId |-> @.modelId,
                           requestBody |-> @.requestBody, result |-> result]]
          /\ h_pc' = "done"
     ELSE IF result.ok
     THEN /\ h_resp' = <<JsonReply(result.text, requestedModel, FALSE)>>
          /\ h_calls' = [h_calls EXCEPT ![1] = [modelId |-> @.modelId,
                           requestBody |-> @.requestBody, result |-> result]]
          /\ h_pc' = "done"
     ELSE IF ShouldFallback(requestedModel, result)
     THEN /\ h_resp' = <<>>
          /\ h_calls' = <<[modelId |-> h_calls[1].modelId,
                           requestBody |-> h_calls[1].requestBody, result |-> result],
                          [modelId |-> DEFAULT_MODEL, requestBody |-> h_body[1]]>>
          /\ h_pc' = "fallback"
     ELSE /\ h_resp' = <<JsonError(result.status, result.message)>>
          /\ h_calls' = [h_calls EXCEPT ![1] = [modelId |-> @.modelId,
                           requestBody |-> @.requestBody, result |-> result]]
          /\ h_pc' = "done"
  /\ UNCHANGED <<h_req, h_headers, h_body, hOthers>>

FirstCallSettles == \E result \in UpstreamResults : FirstSettles(result)

\* mutant: the fallback reply is reported under the requested model
FallbackSettles_NamesRequested(fallback) ==
  /\ h_pc = "fallback"
  /\ h_calls' = [h_calls EXCEPT ![2] = [modelId |-> @.modelId,
                   requestBody |-> @.requestBody, result |-> fallback]]
  /\ h_resp' = IF IsThrown(fallback) THEN <<JsonError(500, fallback.thrown)>>
               ELSE IF fallback.ok
               THEN <<JsonReply(fallback.text, h_calls[1].modelId, TRUE)>>
               ELSE <<JsonError(fallback.status, fallback.message)>>
  /\ h_pc' = "done"
  /\ UNCHANGED <<h_req, h_headers, h_body, hOthers>>

\* the fallback callGeminiRest settles with `fallback`
FallbackSettles(fallback) ==
  /\ h_pc = "fallback"
  /\ h_calls' = [h_calls EXCEPT ![2] = [modelId |-> @.modelId,
                   requestBody |-> @.requestBody, result |-> fallback]]
  /\ h_resp' = IF IsThrown(fallback) THEN <<JsonError(500, fallback.thrown)>>
               ELSE IF fallback.ok THEN <<JsonReply(fallback.text, DEFAULT_MODEL, TRUE)>>
               ELSE <<JsonError(fallback.status, fallback.message)>>
  /\ h_pc' = "done"
  /\ UNCHANGED <<h_req, h_headers, h_body, hOthers>>

FallbackCallSettles == \E fallback \in UpstreamResults : FallbackSettles(fallback)

\* the invocation is over; the function serves the next request
NextRequest ==
  /\ h_pc = "done"
  /\ h_pc' = "idle"
  /\ h_req' = <<>>
  /\ h_headers' = <<>>
  /\ h_body' = <<>>
  /\ h_calls' = <<>>
  /\ h_resp' = <<>>
  /\ UNCHANGED hOthers

HandlerNext ==
  \/ ReceiveRequest
  \/ TokenFails
  \/ TokenOk
  \/ FirstCallSettles
  \/ FallbackCallSettles
  \/ NextRequest

(***************************************************************************)
(* src/App.jsx: the client side of the payload builder.                    *)
(***************************************************************************)
\* { ...record, ...(size !== undefined ? { size } : {}) }
WithSize(r, size) ==
  IF size = Undef THEN Obj(r)
  ELSE Obj([k \in DOMAIN r \cup {"size"} |-> IF k = "size" THEN size ELSE r[k]])

\* typeof x.size === 'number' && Number.isFinite(x.size) ? x.size : undefined
FiniteSize(x) == IF IsFiniteNumber(Prop(x, "size")) THEN Prop(x, "size") ELSE Undef

\* typeof x.name === 'string' ? x.name : ''
NameOf(x) == IF IsString(Prop(x, "name")) THEN Prop(x, "name") ELSE StrV(EmptyStr)

\* typeof x[field] === 'string' ? x[field].trim() : ''
TrimmedProp(x, field) ==
  IF IsString(Prop(x, field)) THEN Trim(Prop(x, field).v) ELSE EmptyStr

\* one element of normalizeImages' map: <<>> for null
NormalizeImageEntry(image) ==
  IF ~IsObject(image) THEN <<>>
  ELSE LET mimeType == IF IsNonBlankString(Prop(image, "mimeType"))
                       THEN Trim(Prop(image, "mimeType").v)
                       ELSE IF IsNonBlankString(Prop(image, "mime_type"))
                       THEN Trim(Prop(image, "mime_type").v)
                       ELSE DEFAULT_MIME
           name == NameOf(image)
           url == TrimmedProp(image, "url")
           size == FiniteSize(image)
           data == TrimmedProp(image, "data")
           previewUrl == TrimmedProp(image, "previewUrl")
       IN  IF url # EmptyStr
           THEN <<Obj([url |-> StrV(url), mimeType |-> StrV(mimeType), name |-> name])>>
           ELSE IF data # EmptyStr
           THEN <<WithSize([data |-> StrV(data), mimeType |-> StrV(mimeType),
                            name |-> name], size)>>
           ELSE IF previewUrl # EmptyStr
           THEN <<WithSize([previewUrl |-> StrV(previewUrl), mimeType |-> StrV(mimeType),
                            name |-> name], size)>>
           ELSE <<WithSize([mimeType |-> StrV(mimeType), name |-> name], size)>>

normalizeImages(rawImages) ==
  IF ~IsArray(rawImages) THEN <<>> ELSE FlatMapSeq(NormalizeImageEntry, rawImages.v)

estimateBase64Bytes_Unstripped(base64) ==
  IF ~IsString(base64) THEN 0 ELSE (StrLen(base64.v) * 3) \div 4

\* estimateBase64Bytes of a string value
estimateBase64Bytes(base64) ==
  IF ~IsString(base64) \/ StrLen(base64.v) = 0 THEN 0
  ELSE (StrLen(StripTrailingEq(base64.v)) * 3) \div 4

MAX_FIRESTORE_INLINE_BYTES == 900000

HasData(image) == IsNonBlankString(Prop(image, "data"))

\* one element of collectImages' map over rawParts
ImageFromPart(part) ==
  IF ~IsObject(part) \/ Prop(part, "type") # StrV(S("image")) THEN <<>>
  ELSE LET data == TrimmedProp(part, "data")
           mimeType == IF IsNonBlankString(Prop(part, "mimeType"))
                       THEN Trim(Prop(part, "mimeType").v) ELSE DEFAULT_MIME
       IN  IF data = EmptyStr THEN <<>>
           ELSE <<WithSize([data |-> StrV(data), mimeType |-> StrV(mimeType),
                            name |-> NameOf(part)], FiniteSize(part))>>

\* `${mimeType}-${data}` of collectImages
ImageSignature(image) ==
  LET mimeType == IF IsNonBlankString(Prop(image, "mimeType"))
                  THEN Trim(Prop(image, "mimeType").v) ELSE DEFAULT_MIME
  IN  Concat(Concat(mimeType, S("-")), TrimmedProp(image, "data"))

RECURSIVE UniqueImages(_, _)
\* collectImages' combined.forEach: seen holds the signatures met so far
UniqueImages(combined, seen) ==
  IF combined = <<>> THEN <<>>
  ELSE LET image == Head(combined)
           data == TrimmedProp(image, "data")
           mimeType == IF IsNonBlankString(Prop(image, "mimeType"))
                       THEN Trim(Prop(image, "mimeType").v) ELSE DEFAULT_MIME
           signature == ImageSignature(image)
       IN  IF data = EmptyStr \/ signature \in seen
           THEN UniqueImages(Tail(combined), seen)
           ELSE <<WithSize([data |-> StrV(data), mimeType |-> StrV(mimeType),
                            name |-> NameOf(image)], FiniteSize(image))>>
                \o UniqueImages(Tail(combined), seen \cup {signature})

collectImages(rawImages, rawParts) ==
  LET normalizedImages == SelectSeq(normalizeImages(rawImages), HasData)
      imagesFromParts == IF IsArray(rawParts) THEN FlatMapSeq(ImageFromPart, rawParts.v)
                         ELSE <<>>
  IN  UniqueImages(normalizedImages \o imagesFromParts, {})

RECURSIVE PartsFromRaw(_, _)
\* buildGeminiParts' rawParts.forEach
PartsFromRaw(rest, sanitizedImages) ==
  IF rest = <<>> THEN <<>>
  ELSE LET part == Head(rest)
           data == TrimmedProp(part, "data")
           text == TrimmedProp(part, "text")
           matches == {i \in 1..Len(sanitizedImages) : Prop(sanitizedImages[i], "data") = StrV(data)}
           sanitizedMatch == IF matches = {} THEN Undef
                             ELSE sanitizedImages[CHOOSE i \in matches : \A j \in matches : i <= j]
           mimeType == IF IsNonBlankString(Prop(part, "mimeType"))
                       THEN Trim(Prop(part, "mimeType").v)
                       ELSE IF IsString(Prop(sanitizedMatch, "mimeType"))
                               /\ Prop(sanitizedMatch, "mimeType").v # EmptyStr
                       THEN Prop(sanitizedMatch, "mimeType").v
                       ELSE DEFAULT_MIME
           here == IF ~IsObject(part) THEN <<>>
                   ELSE IF Prop(part, "type") = StrV(S("text"))
                   THEN IF text # EmptyStr THEN <<TextPart(text)>> ELSE <<>>
                   ELSE IF Prop(part, "type") = StrV(S("image")) /\ data # EmptyStr
                   THEN <<InlinePart([mime_type |-> mimeType, data |-> data])>>
                   ELSE <<>>
       IN  here \o PartsFromRaw(Tail(rest), sanitizedImages)

RECURSIVE AppendMissingImages(_, _)
\* buildGeminiParts' sanitizedImages.forEach
AppendMissingImages(parts, sanitizedImages) ==
  IF sanitizedImages = <<>> THEN parts
  ELSE LET image == Head(sanitizedImages)
           mime == Coalesce(Prop(image, "mimeType"), StrV(DEFAULT_MIME)).v
           data == Prop(image, "data").v
           alreadyIncluded ==
             \E i \in 1..Len(parts) :
               /\ IsInlinePart(parts[i])
               /\ parts[i].inline_data.data = data
               /\ parts[i].inline_data.mime_type = mime
       IN  IF alreadyIncluded THEN AppendMissingImages(parts, Tail(sanitizedImages))
           ELSE AppendMissingImages(
                  Append(parts, InlinePart([mime_type |-> mime, data |-> data])),
                  Tail(sanitizedImages))

buildGeminiParts_TextLast(content, sanitizedImages, rawParts) ==
  LET fromRaw == IF IsArray(rawParts) THEN PartsFromRaw(rawParts.v, sanitizedImages) ELSE <<>>
      trimmedContent == IF IsString(content) THEN Trim(content.v) ELSE EmptyStr
      hasTextPart == \E i \in 1..Len(fromRaw) : IsTextPart(fromRaw[i]) /\ fromRaw[i].text # EmptyStr
      withImages == AppendMissingImages(fromRaw, sanitizedImages)
      parts == IF trimmedContent # EmptyStr /\ ~hasTextPart
               THEN Append(withImages, TextPart(trimmedContent)) ELSE withImages
  IN  IF parts = <<>> THEN <<TextPart(GREETING)>> ELSE parts

buildGeminiParts(content, sanitizedImages, rawParts) ==
  LET fromRaw == IF IsArray(rawParts) THEN PartsFromRaw(rawParts.v, sanitizedImages) ELSE <<>>
      trimmedContent == IF IsString(content) THEN Trim(content.v) ELSE EmptyStr
      hasTextPart == \E i \in 1..Len(fromRaw) : IsTextPart(fromRaw[i]) /\ fromRaw[i].text # EmptyStr
      withText == IF trimmedContent # EmptyStr /\ ~hasTextPart
                  THEN <<TextPart(trimmedContent)>> \o fromRaw ELSE fromRaw
      parts == AppendMissingImages(withText, sanitizedImages)
  IN  IF parts = <<>> THEN <<TextPart(GREETING)>> ELSE parts

\* contentFromProp || firstTextPart?.text.trim() of handleSendMessage
DerivedContent(rawContent, rawParts) ==
  LET contentFromProp == IF IsString(rawContent) THEN Trim(rawContent.v) ELSE EmptyStr
      hits == IF IsArray(rawParts)
              THEN {i \in 1..Len(rawParts.v) :
                      /\ Prop(rawParts.v[i], "type") = StrV(S("text"))
                      /\ IsNonBlankString(Prop(rawParts.v[i], "text"))}
              ELSE {}
  IN  IF contentFromProp # EmptyStr THEN contentFromProp
      ELSE IF hits = {} THEN EmptyStr
      ELSE Trim(Prop(rawParts.v[CHOOSE i \in hits : \A j \in hits : i <= j], "text").v)

\* JSON.stringify / JSON.parse of one part of the request payload
PartToJson(p) ==
  IF IsTextPart(p) THEN Obj([text |-> StrV(p.text)])
  ELSE Obj([inline_data |-> Obj([mime_type |-> StrV(p.inline_data.mime_type),
                                 data |-> StrV(p.inline_data.data)])])

DEFAULT_MAX_OUTPUT_TOKENS_CLIENT == 20480

\* requestPayload of handleSendMessage as the server parses it
RequestPayload(model, derivedContent, userParts, sanitizedImages, supportsImages, settings) ==
  LET base == [model |-> model,
               contents |-> Arr(<<Obj([role |-> StrV(S("user")),
                                       parts |-> Arr(MapSeq(PartToJson, userParts))])>>),
               userPrompt |-> StrV(derivedContent),
               images |-> IF supportsImages THEN Arr(sanitizedImages) ELSE Arr(<<>>),
               temperature |-> settings.temperature,
               top_p |-> settings.topP,
               maxOutputTokens |-> NumV(DEFAULT_MAX_OUTPUT_TOKENS_CLIENT)]
      instructionText == IF IsString(settings.instructions)
                         THEN Trim(settings.instructions.v) ELSE EmptyStr
  IN  IF instructionText = EmptyStr THEN Obj(base)
      ELSE Obj([k \in DOMAIN base \cup {"systemInstruction"} |->
                  IF k = "systemInstruction"
                  THEN Obj([role |-> StrV(S("system")),
                            parts |-> Arr(<<Obj([text |-> StrV(instructionText)])>>)])
                  ELSE base[k]])

(***************************************************************************)
(* The payload builder as a pipeline over bounded inputs: what one message  *)
(* (text, images, structured parts) becomes on the client and then on the   *)
(* server, and what the server makes of a request body sent to it directly. *)
(***************************************************************************)
MaxImages == 2

MaxParts == 2

MaxTurns == 2

SeqsUpTo(V, n) == UNION {[1..k -> V] : k \in 0..n}

DataA == <<Run("A", 4)>>

DataB == <<Run("B", 2), Run("=", 2)>>

MimeJpeg == S("image/jpeg")

\* entries of the images array the Chat component may hand over
ClientImageValues ==
  { Obj([data |-> StrV(DataA), mimeType |-> StrV(DEFAULT_MIME), name |-> StrV(S("a.png"))]),
    Obj([data |-> StrV(S(" ") \o DataA \o S("\n")), name |-> StrV(S("a2.png"))]),
    Obj([data |-> StrV(DataB), mimeType |-> StrV(MimeJpeg), size |-> NumV(20)]),
    Obj([url |-> StrV(S("https://cdn/x.png")), data |-> StrV(DataA)]) }

\* entries of the structured parts array
ClientPartValues ==
  { Obj([type |-> StrV(S("text")), text |-> StrV(S(" ") \o S("Hello"))]),
    Obj([type |-> StrV(S("text")), text |-> StrV(S(" "))]),
    Obj([type |-> StrV(S("image")), data |-> StrV(DataA), mimeType |-> StrV(DEFAULT_MIME)]),
    Obj([type |-> StrV(S("image")), data |-> StrV(DataB)]),
    Null }

ClientTexts == {StrV(EmptyStr), StrV(S("Hi") \o S(" ")), Undef}

ClientInputs ==
  {[kind |-> "client", text |-> t, images |-> Arr(i), parts |-> Arr(p), supportsImages |-> s] :
     t \in ClientTexts, i \in SeqsUpTo(ClientImageValues, MaxImages),
     p \in SeqsUpTo(ClientPartValues, MaxParts), s \in BOOLEAN}

\* entries of a request body's images array
ApiImageValues ==
  { Obj([data |-> StrV(DataA), mimeType |-> StrV(DEFAULT_MIME)]),
    Obj([data |-> StrV(<<Run("A", 2), Run(" ", 1), Run("A", 2)>>),
         mimeType |-> StrV(S(" ") \o DEFAULT_MIME)]),
    Obj([data |-> StrV(<<Run("!", 2)>>), mimeType |-> StrV(DEFAULT_MIME)]) }

InlineA == Obj([inline_data |-> Obj([mime_type |-> StrV(DEFAULT_MIME), data |-> StrV(DataA)])])

InlineCamelB == Obj([inlineData |-> Obj([mimeType |-> StrV(MimeJpeg), base64 |-> StrV(DataB)])])

\* entries of a request body's contents array
ApiTurnValues ==
  { Obj([role |-> StrV(S("user")), parts |-> Arr(<<Obj([text |-> StrV(S("Hello"))])>>)]),
    Obj([parts |-> Arr(<<InlineA, Obj([text |-> StrV(S("look"))]), InlineA>>)]),
    Obj([role |-> StrV(S("model")), parts |-> Arr(<<InlineCamelB>>)]),
    Obj([role |-> StrV(S("user")),
         parts |-> Arr(<<Obj([text |-> StrV(S(" "))]),
                         Obj([inline_data |-> Obj([data |-> StrV(<<Run("A", 1)>>)])])>>)]),
    Obj([role |-> StrV(S("user")), parts |-> StrV(S("Hello"))]),
    Null }

ApiInputs ==
  {[kind |-> "api",
    body |-> Obj([userPrompt |-> u, images |-> i, contents |-> c])] :
     u \in {Undef, StrV(S(" ")), StrV(S(" ") \o S("Hello"))},
     i \in {Undef} \cup {Arr(x) : x \in SeqsUpTo(ApiImageValues, MaxImages)},
     c \in {Undef, StrV(S("Hello"))} \cup {Arr(x) : x \in SeqsUpTo(ApiTurnValues, MaxTurns)}}

DEFAULT_SETTINGS ==
  [model |-> StrV(DEFAULT_MODEL), temperature |-> NumV(8), topP |-> NumV(9),
   instructions |-> StrV(EmptyStr)]

BuildInit ==
  /\ b_in \in ClientInputs \cup ApiInputs
  /\ b_stage = "input"
  /\ b_sanitized = <<>>
  /\ b_parts = <<>>
  /\ b_body = <<>>

\* const sanitizedImages = collectImages(rawImages, rawParts)
Collect ==
  /\ b_stage = "input" /\ b_in.kind = "client"
  /\ b_sanitized' = collectImages(b_in.images, b_in.parts)
  /\ b_stage' = "collected"
  /\ UNCHANGED <<b_in, b_parts, b_body, bOthers>>

\* const userParts = buildGeminiParts({ content, sanitizedImages, rawParts })
BuildParts ==
  /\ b_stage = "collected"
  /\ b_parts' = buildGeminiParts(StrV(DerivedContent(b_in.text, b_in.parts)),
                                 b_sanitized, b_in.parts)
  /\ b_stage' = "built"
  /\ UNCHANGED <<b_in, b_sanitized, b_body, bOthers>>

\* the request handleSendMessage posts, as buildRequestBody receives it
PostToServer ==
  /\ b_stage = "built"
  /\ ~(DerivedContent(b_in.text, b_in.parts) = EmptyStr /\ b_sanitized = <<>>)
  /\ b_body' = <<buildRequestBody(BuildArgs(
                   RequestPayload(DEFAULT_SETTINGS.model,
                                  DerivedContent(b_in.text, b_in.parts),
                                  b_parts, b_sanitized, b_in.supportsImages,
                                  DEFAULT_SETTINGS)))>>
  /\ b_stage' = "served"
  /\ UNCHANGED <<b_in, b_sanitized, b_parts, bOthers>>

\* buildRequestBody on a request body sent to the endpoint directly
ServeApi ==
  /\ b_stage = "input" /\ b_in.kind = "api"
  /\ b_body' = <<buildRequestBody(BuildArgs(b_in.body))>>
  /\ b_stage' = "served"
  /\ UNCHANGED <<b_in, b_sanitized, b_parts, bOthers>>

BuildNext ==
  \/ Collect
  \/ BuildParts
  \/ PostToServer
  \/ ServeApi

BuildIdle ==
  /\ b_in = <<>>
  /\ b_stage = "off"
  /\ b_sanitized = <<>>
  /\ b_parts = <<>>
  /\ b_body = <<>>

(***************************************************************************)
(* handleSendMessage (App.jsx): one send from the composer to the stored    *)
(* conversation.  Every await is a step; the code between two awaits runs   *)
(* inside the step that resumes it.                                         *)
(***************************************************************************)
MaxSends == 2

\* base64 payloads around the inline cap: 1,200,000 characters decode to 900,000 bytes
BigA == <<Run("A", 700000)>>

BigB == <<Run("B", 700000)>>

ExactA == <<Run("A", 1200000)>>

OverA == <<Run("A", 1200002), Run("=", 2)>>

ImageOf(data, name) ==
  Obj([data |-> StrV(data), mimeType |-> StrV(DEFAULT_MIME), name |-> StrV(S(name))])

\* the images argument of a send
SendImageLists ==
  { <<>>,
    <<ImageOf(DataA, "a.png")>>,
    <<ImageOf(BigA, "a.png"), ImageOf(BigA, "copy.png")>>,
    <<ImageOf(BigA, "a.png"), ImageOf(BigB, "b.png")>>,
    <<ImageOf(ExactA, "a.png")>>,
    <<ImageOf(ExactA, "a.png"), ImageOf(DataA, "s.png")>>,
    <<ImageOf(OverA, "a.png")>> }

\* the parts argument of a send
SendPartLists ==
  { <<>>,
    <<Obj([type |-> StrV(S("text")), text |-> StrV(S("Hello"))]),
      Obj([type |-> StrV(S("image")), data |-> StrV(BigB)])>> }

\* one call of handleSendMessage: its arguments, the signed-in user (or none) and
\* the number of attachments that carry a File
\* file-bearing attachments of a send
MaxFiles == 2

SendInputs ==
  [text : {StrV(EmptyStr), StrV(S("Hello") \o S(" "))},
   images : {Arr(x) : x \in SendImageLists},
   parts : {Arr(x) : x \in SendPartLists},
   files : 0..MaxFiles,
   user : BOOLEAN]

RECURSIVE InlineBytes(_)
\* sanitizedImages.reduce((sum, image) => sum + estimateBase64Bytes(image?.data ?? ''), 0)
InlineBytes(sanitizedImages) ==
  IF sanitizedImages = <<>> THEN 0
  ELSE estimateBase64Bytes(Coalesce(Prop(Head(sanitizedImages), "data"), StrV(EmptyStr)))
       + InlineBytes(Tail(sanitizedImages))

SanitizedImagesOf(in) == collectImages(in.images, in.parts)

DerivedContentOf(in) == DerivedContent(in.text, in.parts)

TooLargeInline_PerImage(in) ==
  \E i \in 1..Len(SanitizedImagesOf(in)) :
    InlineBytes(<<SanitizedImagesOf(in)[i]>>) > MAX_FIRESTORE_INLINE_BYTES

\* if (inlineBytes > MAX_FIRESTORE_INLINE_BYTES) throw
TooLargeInline(in) == InlineBytes(SanitizedImagesOf(in)) > MAX_FIRESTORE_INLINE_BYTES

\* if (!derivedContent && sanitizedImages.length === 0) return
NothingToSend(in) == DerivedContentOf(in) = EmptyStr /\ SanitizedImagesOf(in) = <<>>

\* responses of fetch('/api/generate'): a rejection, a non-2xx status, or a 2xx
\* body whose reply is a text, empty or missing, or that is not JSON
GenerateResponses ==
  {[kind |-> "thrown"]}
    \cup {[kind |-> "status", status |-> st] : st \in {400, 403, 405, 429, 500}}
    \cup {[kind |-> "ok", reply |-> r, fallbackApplied |-> f] :
            r \in {StrV(S("Ciao")), StrV(EmptyStr), Undef}, f \in BOOLEAN}
    \cup {[kind |-> "notjson"]}

\* const replyText = payload?.reply; if (!replyText) throw
HasReplyText_AnyOk(resp) == resp.kind = "ok"

HasReplyText(resp) == resp.kind = "ok" /\ IsString(resp.reply) /\ resp.reply.v # EmptyStr

UserMessage(n) == [role |-> "user", send |-> n]

AssistantMessage(n) == [role |-> "assistant", send |-> n]

\* chats.find((chat) => chat.id === chatId) ?? { id: chatId, ..., messages: [] }
ExistingMessages(chats, chatId) ==
  IF chatId \in 1..Len(chats) THEN chats[chatId] ELSE <<>>

\* setChats: the chat chatId now holds messages (a new chat is added)
WithChat(chats, chatId, messages) ==
  IF chatId \in 1..Len(chats) THEN [chats EXCEPT ![chatId] = messages]
  ELSE Append(chats, messages)

SendIdle ==
  /\ s_pc = "off"
  /\ s_in = <<>>
  /\ s_ops = <<>>
  /\ s_store = <<>>
  /\ s_ui = <<>>
  /\ s_closure = <<>>
  /\ s_chatId = 0
  /\ s_cors = "none"
  /\ s_resp = <<>>
  /\ s_sends = 0

SendInit ==
  /\ s_pc = "idle"
  /\ s_in = <<>>
  /\ s_ops = <<>>
  /\ s_store = <<>>
  /\ \E model \in {"default", "other"} :
       s_ui = [chats |-> <<>>, activeChatId |-> 0, isGenerating |-> FALSE,
               error |-> "none", timer |-> FALSE, model |-> model]
  /\ s_closure = <<>>
  /\ s_chatId = 0
  /\ s_cors = "none"
  /\ s_resp = <<>>
  /\ s_sends = 0

\* [...(existingChat.messages ?? []), userMessage]
UpdatedMessages == Append(ExistingMessages(s_closure.chats, s_chatId), UserMessage(s_sends))

\* [...updatedMessages, assistantMessage]
FinalMessages == Append(UpdatedMessages, AssistantMessage(s_sends))

\* the handler rejects: nothing after the throw runs
Throws(ops) ==
  /\ s_pc' = "thrown"
  /\ s_ops' = ops

\* lines 1025-1037: after the uploads, up to the await of ensureChatExists
EnterGeneration(in, ops, activeChatId) ==
  IF NothingToSend(in)
  THEN /\ s_pc' = "returned"
       /\ s_ops' = ops
       /\ UNCHANGED s_ui
  ELSE /\ s_pc' = "ensure"
       /\ s_ops' = IF activeChatId = 0 THEN Append(ops, "addDoc") ELSE ops
       /\ s_ui' = [s_ui EXCEPT !.error = "none", !.isGenerating = TRUE]

\* the catch and finally blocks: setError, resetStreaming, setIsGenerating(false)
Caught ==
  /\ s_pc' = "returned"
  /\ s_ui' = [s_ui EXCEPT !.error = "caught", !.timer = FALSE, !.isGenerating = FALSE]

\* onUploadStatusChange(attachmentId, 'error', ...) for each file-bearing attachment
StatusErrors(n) == [i \in 1..n |-> "statusError"]

ProbeRefused_Uploads(in, ops) ==
  /\ s_pc' = "upload"
  /\ s_ops' = ops \o <<"probeRefused", "upload">>
  /\ UNCHANGED s_ui

\* the probe found the bucket closed: setError, 'error' callbacks, throw
ProbeRefused(in, ops) ==
  /\ s_ui' = [s_ui EXCEPT !.error = "corsProbe"]
  /\ Throws(ops \o <<"probeRefused">> \o StatusErrors(in.files))

\* handleSendMessage is called: lines 957-998, up to the first await
Send(in) ==
  /\ s_pc = "idle"
  /\ s_sends < MaxSends
  /\ s_sends' = s_sends + 1
  /\ s_in' = in
  /\ s_closure' = [chats |-> s_ui.chats, activeChatId |-> s_ui.activeChatId]
  /\ s_resp' = <<>>
  /\ s_chatId' = 0
  /\ IF ~in.user \/ TooLargeInline(in)
     THEN Throws(<<>>) /\ UNCHANGED s_ui
     ELSE IF in.files = 0 THEN EnterGeneration(in, <<>>, s_ui.activeChatId)
     ELSE IF s_cors = "none" THEN s_pc' = "probe" /\ s_ops' = <<"probe">> /\ UNCHANGED s_ui
     ELSE IF s_cors = "bad" THEN ProbeRefused(in, <<"probe">>)
     ELSE s_pc' = "upload" /\ s_ops' = <<"probe", "probeOk", "upload">> /\ UNCHANGED s_ui
  /\ UNCHANGED <<s_store, s_cors, sOthers>>

SendMessage == \E in \in SendInputs : Send(in)

\* testFirebaseCors resolves
Probe(ok) ==
  /\ s_pc = "probe"
  /\ s_cors' = IF ok THEN "ok" ELSE "bad"
  /\ IF ok THEN s_pc' = "upload" /\ s_ops' = s_ops \o <<"probeOk", "upload">> /\ UNCHANGED s_ui
     ELSE ProbeRefused(s_in, s_ops)
  /\ UNCHANGED <<s_in, s_store, s_closure, s_chatId, s_resp, s_sends, sOthers>>

ProbeSettles == \E ok \in BOOLEAN : Probe(ok)

\* CORS_CACHE_TTL passes
CorsCacheExpires ==
  /\ s_pc # "off"
  /\ s_cors # "none"
  /\ s_cors' = "none"
  /\ UNCHANGED <<s_pc, s_in, s_ops, s_store, s_ui, s_closure, s_chatId, s_resp, s_sends, sOthers>>

\* uploadAttachmentsToStorage resolves or rejects
Upload(ok) ==
  /\ s_pc = "upload"
  /\ IF ok THEN EnterGeneration(s_in, s_ops, s_closure.activeChatId)
     ELSE Throws(s_ops) /\ UNCHANGED s_ui
  /\ UNCHANGED <<s_in, s_store, s_closure, s_chatId, s_cors, s_resp, s_sends, sOthers>>

UploadSettles == \E ok \in BOOLEAN : Upload(ok)

\* ensureChatExists resolves or rejects; on success lines 1043-1089 run up to
\* the await of the user-message setDoc
Ensure(ok) ==
  /\ s_pc = "ensure"
  /\ s_closure.activeChatId # 0 => ok
  /\ IF ok
     THEN LET chatId == IF s_closure.activeChatId # 0 THEN s_closure.activeChatId
                        ELSE Len(s_store) + 1
              created == IF s_closure.activeChatId # 0 THEN s_ui.chats
                         ELSE WithChat(s_ui.chats, chatId, <<>>)
              updatedMessages == Append(ExistingMessages(s_closure.chats, chatId),
                                        UserMessage(s_sends))
          IN  /\ s_chatId' = chatId
              /\ s_store' = IF s_closure.activeChatId # 0 THEN s_store
                            ELSE Append(s_store, <<>>)
              /\ s_ui' = [s_ui EXCEPT !.activeChatId = chatId,
                                      !.chats = WithChat(created, chatId, updatedMessages)]
              /\ s_ops' = Append(s_ops, "userWrite")
              /\ s_pc' = "writeUser"
     ELSE Caught /\ UNCHANGED <<s_chatId, s_store, s_ops>>
  /\ UNCHANGED <<s_in, s_closure, s_cors, s_resp, s_sends, sOthers>>

EnsureSettles == \E ok \in BOOLEAN : Ensure(ok)

\* the setDoc of the user's message resolves or rejects; on success
\* fetch('/api/generate') is issued
UserWrite(ok) ==
  /\ s_pc = "writeUser"
  /\ IF ok
     THEN /\ s_store' = [s_store EXCEPT ![s_chatId] = UpdatedMessages]
          /\ s_ops' = s_ops \o <<"userWriteDone", "generate">>
          /\ s_pc' = "generate"
          /\ UNCHANGED s_ui
     ELSE Caught /\ UNCHANGED <<s_store, s_ops>>
  /\ UNCHANGED <<s_in, s_closure, s_chatId, s_cors, s_resp, s_sends, sOthers>>

UserWriteSettles == \E ok \in BOOLEAN : UserWrite(ok)

\* fetch('/api/generate') settles: lines 1141-1178
Generate(resp) ==
  /\ s_pc = "generate"
  /\ s_resp' = resp
  /\ IF resp.kind = "status"
     THEN /\ s_pc' = "returned"
          /\ s_ui' = [s_ui EXCEPT !.error = "api", !.isGenerating = FALSE]
     ELSE IF resp.kind \in {"thrown", "notjson"} THEN Caught
     ELSE LET warned == IF resp.fallbackApplied /\ s_ui.model # "default"
                        THEN [s_ui EXCEPT !.model = "default", !.error = "fallback"]
                        ELSE s_ui
          IN  IF HasReplyText(resp)
              THEN s_pc' = "stream" /\ s_ui' = [warned EXCEPT !.timer = TRUE]
              ELSE /\ s_pc' = "returned"
                   /\ s_ui' = [warned EXCEPT !.error = "caught", !.timer = FALSE,
                                             !.isGenerating = FALSE]
  /\ UNCHANGED <<s_in, s_ops, s_store, s_closure, s_chatId, s_cors, s_sends, sOthers>>

GenerateSettles == \E resp \in GenerateResponses : Generate(resp)

\* the streaming interval reaches the end of the text and resolves: lines 1180-1201
StreamEnds ==
  /\ s_pc = "stream"
  /\ s_ui.timer
  /\ s_ui' = [s_ui EXCEPT !.timer = FALSE,
                          !.chats = WithChat(@, s_chatId, FinalMessages)]
  /\ s_ops' = Append(s_ops, "assistantWrite")
  /\ s_pc' = "writeAssistant"
  /\ UNCHANGED <<s_in, s_store, s_closure, s_chatId, s_cors, s_resp, s_sends, sOthers>>

\* the setDoc of the assistant's reply resolves or rejects
AssistantWrite(ok) ==
  /\ s_pc = "writeAssistant"
  /\ IF ok
     THEN /\ s_store' = [s_store EXCEPT ![s_chatId] = FinalMessages]
          /\ s_ops' = Append(s_ops, "assistantWriteDone")
          /\ s_pc' = "returned"
          /\ s_ui' = [s_ui EXCEPT !.timer = FALSE, !.isGenerating = FALSE]
     ELSE Caught /\ UNCHANGED <<s_store, s_ops>>
  /\ UNCHANGED <<s_in, s_closure, s_chatId, s_cors, s_resp, s_sends, sOthers>>

AssistantWriteSettles == \E ok \in BOOLEAN : AssistantWrite(ok)

\* handleSelectChat: the user opens a chat of the list
SelectChat ==
  /\ s_pc # "off"
  /\ \E id \in 1..Len(s_ui.chats) :
       s_ui' = [s_ui EXCEPT !.activeChatId = id, !.timer = FALSE, !.error = "none"]
  /\ UNCHANGED <<s_pc, s_in, s_ops, s_store, s_closure, s_chatId, s_cors, s_resp, s_sends,
                 sOthers>>

\* the promise of a send has settled and the composer is ready for the next one
SendSettled ==
  /\ s_pc \in {"returned", "thrown"}
  /\ s_pc' = "idle"
  /\ s_in' = <<>>
  /\ s_ops' = <<>>
  /\ s_closure' = <<>>
  /\ s_chatId' = 0
  /\ s_resp' = <<>>
  /\ UNCHANGED <<s_store, s_ui, s_cors, s_sends, sOthers>>

SendNext ==
  \/ SendMessage
  \/ ProbeSettles
  \/ CorsCacheExpires
  \/ UploadSettles
  \/ EnsureSettles
  \/ UserWriteSettles
  \/ GenerateSettles
  \/ StreamEnds
  \/ AssistantWriteSettles
  \/ SelectChat
  \/ SendSettled

(***************************************************************************)
(* uploadAttachmentsToStorage (App.jsx) and the bucket candidates           *)
(* (firebase.js).  Error codes and messages are sequences of word chunks so *)
(* that includes() and toLowerCase() are computed, not assumed.             *)
(***************************************************************************)
RECURSIVE Words(_)
\* a string made of the given word chunks
Words(ws) == IF ws = <<>> THEN <<>> ELSE S(Head(ws)) \o Words(Tail(ws))

\* String.prototype.includes
Includes(s, needle) ==
  \E i \in 1..(Len(s) - Len(needle) + 1) : SubSeq(s, i, i + Len(needle) - 1) = needle

LowerChunk(c) ==
  CASE c = "CORS" -> "cors"
    [] c = "Permission denied" -> "permission denied"
    [] c = "Access " -> "access "
    [] c = "Quota exceeded" -> "quota exceeded"
    [] c = "Failed to fetch" -> "failed to fetch"
    [] c = "User does not have permission" -> "user does not have permission"
    [] c = "Preflight" -> "preflight"
    [] c = "Request " -> "request "
    [] c = " failed" -> " failed"
    [] OTHER -> c

LowerRun(r) == Run(LowerChunk(r.c), r.n)

\* String.prototype.toLowerCase
ToLowerCase(s) == MapSeq(LowerRun, s)

FALLBACK_STORAGE_BUCKETS ==
  <<S("auiki-x-eataly.firebasestorage.app"), S("auiki-x-eataly.appspot.com")>>

\* values of import.meta.env.VITE_FIREBASE_STORAGE_BUCKET
EnvBuckets ==
  { Undef,
    StrV(S(" ")),
    StrV(S("auiki-x-eataly.appspot.com") \o S(" ")),
    StrV(S(" ") \o S("my-project.appspot.com")) }

resolveStorageBucket(raw) ==
  LET trimmed == IF IsString(raw) THEN Trim(raw.v) ELSE EmptyStr
  IN  IF trimmed # EmptyStr THEN trimmed ELSE FALLBACK_STORAGE_BUCKETS[1]

primaryStorageBucket == resolveStorageBucket(u_env)

RECURSIVE Distinct(_, _)
\* Array.from(new Set(list)): first occurrences, in order
Distinct(list, seen) ==
  IF list = <<>> THEN <<>>
  ELSE IF Head(list) \in seen THEN Distinct(Tail(list), seen)
  ELSE <<Head(list)>> \o Distinct(Tail(list), seen \cup {Head(list)})

STORAGE_BUCKET_CANDIDATES == Distinct(<<primaryStorageBucket>> \o FALLBACK_STORAGE_BUCKETS, {})

DEFAULT_STORAGE_CANDIDATES ==
  Distinct(<<S("auiki-x-eataly.firebasestorage.app"), S("auiki-x-eataly.appspot.com")>>
             \o STORAGE_BUCKET_CANDIDATES, {})

\* the next candidate at or after position k whose trimmed name is not blank (0: none)
NextCandidate(k) ==
  LET usable == {j \in k..Len(DEFAULT_STORAGE_CANDIDATES) :
                   Trim(DEFAULT_STORAGE_CANDIDATES[j]) # EmptyStr}
  IN  IF usable = {} THEN 0 ELSE CHOOSE j \in usable : \A i \in usable : j <= i

MAX_UPLOAD_RETRIES == 3

RETRY_WAIT_MS == 3000

StorageError(name, code, message) == [name |-> name, code |-> code, message |-> message]

ErrUnauthorized ==
  StorageError("FirebaseError", StrV(Words(<<"storage/", "unauthorized">>)),
               StrV(S("User does not have permission")))

ErrRetryLimit ==
  StorageError("FirebaseError", StrV(Words(<<"storage/", "retry-limit-exceeded">>)),
               StrV(S("Max retry time exceeded")))

ErrCorsPolicy ==
  StorageError("Error", Undef, StrV(Words(<<"Access ", "blocked by ", "CORS", " policy">>)))

ErrPermissionDenied ==
  StorageError("FirebaseError", StrV(Words(<<"storage/", "unknown">>)),
               StrV(S("Permission denied")))

ErrCanceled ==
  StorageError("FirebaseError", StrV(Words(<<"storage/", "canceled">>)),
               StrV(S("User canceled the upload")))

ErrFetch == StorageError("TypeError", Undef, StrV(S("Failed to fetch")))

ErrQuota ==
  StorageError("FirebaseError", StrV(Words(<<"storage/", "quota-exceeded">>)),
               StrV(S("Quota exceeded")))

ErrAuthDomain ==
  StorageError("FirebaseError", StrV(Words(<<"auth/", "unauthorized", "-domain">>)),
               StrV(S("Domain not allowed")))

\* what uploadBytes or getDownloadURL can reject with
UploadErrors ==
  {ErrUnauthorized, ErrCorsPolicy, ErrCanceled, ErrFetch, ErrQuota, ErrAuthDomain}

LowerCode(error) == IF IsString(error.code) THEN ToLowerCase(error.code.v) ELSE EmptyStr

CorsIndicators ==
  { S("cors"), S("no access-control-allow-origin"),
    Words(<<"blocked by ", "cors", " policy">>), S("preflight"), S("cross-origin"),
    S("permission denied") }

isLikelyCorsError(error) ==
  LET code == LowerCode(error)
      message == IF IsString(error.message) THEN ToLowerCase(error.message.v) ELSE EmptyStr
  IN  \/ Includes(code, S("cors"))
      \/ code = Words(<<"storage/", "unauthorized">>)
      \/ code = Words(<<"storage/", "retry-limit-exceeded">>)
      \/ message # EmptyStr /\ \E indicator \in CorsIndicators : Includes(message, indicator)

classifyStorageError(error) ==
  IF error = Null THEN "unknown"
  ELSE IF isLikelyCorsError(error) THEN "cors"
  ELSE IF Includes(LowerCode(error), S("unauthorized")) THEN "auth"
  ELSE IF \/ Includes(LowerCode(error), S("retry-limit-exceeded"))
          \/ Includes(LowerCode(error), S("canceled"))
          \/ Includes(LowerCode(error), S("timeout"))
  THEN "network"
  ELSE "unknown"

\* error instanceof TypeError || error.message.includes('Failed to fetch')
isFetchError(error) ==
  \/ error.name = "TypeError"
  \/ IsString(error.message) /\ Includes(error.message.v, S("Failed to fetch"))

isCors_Any(error) == TRUE

\* lastClassification === 'cors' || error?.code === 'storage/unauthorized'
isCors(error) ==
  \/ classifyStorageError(error) = "cors"
  \/ error.code = StrV(Words(<<"storage/", "unauthorized">>))

isRetryable_Always(error) == TRUE

isRetryable(error) ==
  isCors(error) \/ classifyStorageError(error) = "network" \/ isFetchError(error)

\* one attachment: its id and whether it carries a File
Attachment(id, file) == [id |-> id, file |-> file]

\* the attachments argument of a call
UploadBatches ==
  { <<>>,
    <<Attachment("a", TRUE)>>,
    <<Attachment("n", FALSE)>>,
    <<Attachment("n", FALSE), Attachment("a", TRUE)>>,
    <<Attachment("a", TRUE), Attachment("b", TRUE)>> }

\* an onStatusChange call; the payload keeps the bucket, the attempt and, for
\* 'error', the error
Call(status, bucket, attempt, error) ==
  [status |-> status, bucket |-> bucket, attempt |-> attempt, error |-> error]

GenericError == StorageError("Error", Undef, StrV(S("Upload fallito su tutti i bucket disponibili.")))

TrimmedBucket(k) == Trim(DEFAULT_STORAGE_CANDIDATES[k])

\* what an attachment of the batches holds besides its id: its own mimeType and
\* name, and the type, name and size of its File
AttachmentFields(id) ==
  IF id = "a"
  THEN [mimeType |-> StrV(S(" ") \o S("image/png") \o S(" ")), name |-> StrV(S("a.png")),
        file |-> Obj([type |-> StrV(S("image/webp")), name |-> StrV(S("IMG_1.webp")),
                      size |-> NumV(10000)])]
  ELSE IF id = "b"
  THEN [mimeType |-> StrV(S(" ")), name |-> Undef,
        file |-> Obj([type |-> StrV(EmptyStr), name |-> StrV(S("IMG_2")), size |-> NumV(0)])]
  ELSE [mimeType |-> StrV(S("image/png")), name |-> StrV(S("n.png")), file |-> Undef]

\* the record pushed on results: lines 289-292 and 329-335; the download URL
\* names the bucket and the object, whose path holds the attachment's index
UploadRecord(batch, index, bucket) ==
  LET attachment == AttachmentFields(batch[index].id)
      file == attachment.file
  IN  [url |-> [bucket |-> bucket, index |-> index],
       mimeType |-> IF IsNonBlankString(attachment.mimeType) THEN Trim(attachment.mimeType.v)
                    ELSE IF Prop(file, "type") \notin {Undef, StrV(EmptyStr)}
                    THEN Prop(file, "type").v ELSE S("image/jpeg"),
       name |-> Coalesce(attachment.name, Coalesce(Prop(file, "name"), StrV(EmptyStr))),
       size |-> Prop(file, "size"),
       bucket |-> bucket]

NextFile_Any(batch, from) == IF from <= Len(batch) THEN from ELSE 0

\* the next attachment at or after position from that carries a File (0: none)
NextFile(batch, from) ==
  LET files == {i \in from..Len(batch) : batch[i].file}
  IN  IF files = {} THEN 0 ELSE CHOOSE i \in files : \A j \in files : i <= j

\* an attempt, the milliseconds waited for it since the failure before it, its outcome
NewAttempt(attempt, waited) ==
  [attempt |-> attempt, waited |-> waited, state |-> "pending", error |-> <<>>]

\* what is remembered of a bucket left behind
Tried(k, log) ==
  [bucket |-> TrimmedBucket(k),
   attempts |-> Len(log),
   allCors |-> \A i \in 1..Len(log) : classifyStorageError(log[i].error) = "cors",
   last |-> log[Len(log)].error]

\* the for loop over the candidates reaches position k; k = 0: the loop is over
\* without a success and lines 400-409 report and throw
EnterBucket(k, local, calls, tried) ==
  /\ u_local' = local
  /\ u_tried' = tried
  /\ IF k # 0
     THEN /\ u_pc' = "uploadBytes"
          /\ u_bucket' = k
          /\ u_attempt' = 1
          /\ u_calls' = Append(calls, Call("uploading", TrimmedBucket(k), 1, <<>>))
          /\ u_log' = <<NewAttempt(1, 0)>>
          /\ u_thrown' = <<>>
     ELSE LET error == IF local.lastError # <<>> THEN local.lastError ELSE GenericError
          IN  /\ u_pc' = "rejected"
              /\ u_bucket' = 0
              /\ u_attempt' = 0
              /\ u_calls' = Append(calls, Call("error", <<>>, 0, error))
              /\ u_log' = <<>>
              /\ u_thrown' = error

InitialLocal == [succeeded |-> FALSE, lastError |-> <<>>, lastClassification |-> "unknown"]

\* uploadAttachmentsToStorage is called: up to the first uploadBytes
UploadBatch(batch) ==
  /\ u_pc = "idle"
  /\ u_batch' = batch
  /\ u_results' = <<>>
  /\ IF NextFile(batch, 1) = 0
     THEN /\ u_pc' = "resolved"
          /\ UNCHANGED <<u_index, u_bucket, u_attempt, u_local, u_calls, u_log, u_tried,
                         u_thrown>>
     ELSE /\ u_index' = NextFile(batch, 1)
          /\ EnterBucket(NextCandidate(1), InitialLocal, <<>>, <<>>)
  /\ UNCHANGED <<u_env, uOthers>>

UploadCalled == \E batch \in UploadBatches : UploadBatch(batch)

\* uploadBytes resolves
BytesUploaded ==
  /\ u_pc = "uploadBytes"
  /\ u_pc' = "getDownloadURL"
  /\ UNCHANGED <<u_env, u_batch, u_index, u_bucket, u_attempt, u_local, u_results, u_calls,
                 u_log, u_tried, u_thrown, uOthers>>

\* getDownloadURL resolves: lines 329-343, then the next attachment or the return
UrlResolved ==
  LET record == UploadRecord(u_batch, u_index, TrimmedBucket(u_bucket))
      calls == Append(u_calls, Call("success", TrimmedBucket(u_bucket), 0, <<>>))
      local == [succeeded |-> TRUE, lastError |-> <<>>, lastClassification |-> "success"]
      next == NextFile(u_batch, u_index + 1)
  IN  /\ u_pc = "getDownloadURL"
      /\ u_results' = Append(u_results, record)
      /\ IF next = 0
         THEN /\ u_pc' = "resolved"
              /\ u_local' = local
              /\ u_calls' = calls
              /\ u_log' = [u_log EXCEPT ![Len(u_log)].state = "ok"]
              /\ UNCHANGED <<u_index, u_bucket, u_attempt, u_tried, u_thrown>>
         ELSE /\ u_index' = next
              /\ EnterBucket(NextCandidate(1), InitialLocal, <<>>, <<>>)
      /\ UNCHANGED <<u_env, u_batch, uOthers>>

\* uploadBytes or getDownloadURL rejects: the catch block of lines 344-386 and
\* what follows it
AttemptFails(error) ==
  LET local == [succeeded |-> FALSE, lastError |-> error,
                lastClassification |-> classifyStorageError(error)]
      logged == [u_log EXCEPT ![Len(u_log)].state = "failed", ![Len(u_log)].error = error]
      retrying == Call("retrying", TrimmedBucket(u_bucket), u_attempt + 1, <<>>)
      failed == Call("error", TrimmedBucket(u_bucket), 0, error)
  IN  /\ u_pc \in {"uploadBytes", "getDownloadURL"}
      /\ IF isRetryable(error) /\ u_attempt < MAX_UPLOAD_RETRIES
         THEN /\ u_pc' = "wait"
              /\ u_local' = local
              /\ u_calls' = Append(u_calls, retrying)
              /\ u_log' = logged
              /\ UNCHANGED <<u_bucket, u_attempt, u_tried, u_thrown>>
         ELSE IF isCors(error)
         THEN EnterBucket(NextCandidate(u_bucket + 1), local, Append(u_calls, retrying),
                          Append(u_tried, Tried(u_bucket, logged)))
         ELSE /\ u_pc' = "rejected"
              /\ u_local' = local
              /\ u_calls' = u_calls \o <<failed, failed>>
              /\ u_log' = logged
              /\ u_thrown' = error
              /\ UNCHANGED <<u_bucket, u_attempt, u_tried>>
      /\ UNCHANGED <<u_env, u_batch, u_index, u_results, uOthers>>

AttemptRejected == \E error \in UploadErrors : AttemptFails(error)

\* wait(3000) resolves and the while loop starts the next attempt
WaitElapses ==
  /\ u_pc = "wait"
  /\ u_attempt' = u_attempt + 1
  /\ u_log' = Append(u_log, NewAttempt(u_attempt + 1, RETRY_WAIT_MS))
  /\ u_pc' = "uploadBytes"
  /\ UNCHANGED <<u_env, u_batch, u_index, u_bucket, u_local, u_results, u_calls, u_tried,
                 u_thrown, uOthers>>

UploadIdle ==
  /\ u_pc = "off"
  /\ u_env = Undef
  /\ u_batch = <<>>
  /\ u_index = 0
  /\ u_bucket = 0
  /\ u_attempt = 0
  /\ u_local = <<>>
  /\ u_results = <<>>
  /\ u_calls = <<>>
  /\ u_log = <<>>
  /\ u_tried = <<>>
  /\ u_thrown = <<>>

UploadInit ==
  /\ u_pc = "idle"
  /\ u_env \in EnvBuckets
  /\ u_batch = <<>>
  /\ u_index = 0
  /\ u_bucket = 0
  /\ u_attempt = 0
  /\ u_local = <<>>
  /\ u_results = <<>>
  /\ u_calls = <<>>
  /\ u_log = <<>>
  /\ u_tried = <<>>
  /\ u_thrown = <<>>

UploadNext ==
  \/ UploadCalled
  \/ BytesUploaded
  \/ UrlResolved
  \/ AttemptRejected
  \/ WaitElapses

(***************************************************************************)
(* classifyStorageError and the retry decision applied to every error of a  *)
(* bounded family.                                                          *)
(***************************************************************************)
ErrorNames == {"Error", "TypeError", "FirebaseError"}

ErrorCodes ==
  { Undef,
    NumV(4030),
    StrV(Words(<<"storage/", "unauthorized">>)),
    StrV(Words(<<"storage/", "retry-limit-exceeded">>)),
    StrV(Words(<<"storage/", "canceled">>)),
    StrV(Words(<<"storage/", "server-", "timeout">>)),
    StrV(Words(<<"storage/", "unknown">>)),
    StrV(Words(<<"storage/", "quota-exceeded">>)),
    StrV(Words(<<"storage/", "CORS", "-blocked">>)),
    StrV(Words(<<"auth/", "unauthorized", "-domain">>)) }

ErrorMessages ==
  { Undef,
    StrV(EmptyStr),
    StrV(S("Failed to fetch")),
    StrV(Words(<<"Access ", "blocked by ", "CORS", " policy">>)),
    StrV(Words(<<"Preflight", " failed">>)),
    StrV(S("Permission denied")),
    StrV(S("Quota exceeded")),
    StrV(Words(<<"Request ", "timeout">>)) }

\* the errors classified: every name, code and message, and no error at all
ClassifyInputs ==
  {Null} \cup {StorageError(n, c, m) : n \in ErrorNames, c \in ErrorCodes, m \in ErrorMessages}

ClassifyIdle ==
  /\ c_error = Null
  /\ c_class = "off"
  /\ c_retry = "off"

ClassifyInit ==
  /\ c_error \in ClassifyInputs
  /\ c_class = "none"
  /\ c_retry = "none"

\* lastClassification = classifyStorageError(error)
Classify ==
  /\ c_class = "none"
  /\ c_class' = classifyStorageError(c_error)
  /\ UNCHANGED <<c_error, c_retry, cOthers>>

\* the catch block's isRetryable for an error that was thrown
DecideRetry ==
  /\ c_class \notin {"none", "off"}
  /\ c_retry = "none"
  /\ c_error # Null
  /\ c_retry' = IF isRetryable(c_error) THEN "yes" ELSE "no"
  /\ UNCHANGED <<c_error, c_class, cOthers>>

ClassifyNext ==
  \/ Classify
  \/ DecideRetry

(***************************************************************************)
(* src/App.jsx: what a conversation looks like in the document store, and   *)
(* how the snapshot listener reads it back.                                 *)
(***************************************************************************)
\* one element of mapImagesForUi's map: <<>> for null
UiImageEntry(image) ==
  LET url == TrimmedProp(image, "url")
      mimeType == IF IsNonBlankString(Prop(image, "mimeType"))
                  THEN Trim(Prop(image, "mimeType").v) ELSE DEFAULT_MIME
  IN  IF url = EmptyStr THEN <<>>
      ELSE <<WithSize([url |-> StrV(url), mimeType |-> StrV(mimeType),
                       name |-> Coalesce(Prop(image, "name"), StrV(EmptyStr))],
                      FiniteSize(image))>>

mapImagesForUi(images) ==
  IF ~IsArray(images) THEN <<>> ELSE FlatMapSeq(UiImageEntry, images.v)

StorageImageEntry_KeepsAll(image) ==
  IF IsObject(image) THEN <<image>> ELSE <<Obj([url |-> StrV(EmptyStr)])>>

\* one element of mapImagesForStorage's map: <<>> for null
StorageImageEntry(image) ==
  LET url == TrimmedProp(image, "url")
      mimeType == IF IsNonBlankString(Prop(image, "mimeType"))
                  THEN Trim(Prop(image, "mimeType").v)
                  ELSE IF IsNonBlankString(Prop(image, "mime_type"))
                  THEN Trim(Prop(image, "mime_type").v)
                  ELSE EmptyStr
      hasName == IsNonBlankString(Prop(image, "name"))
      hasSize == IsFiniteNumber(Prop(image, "size"))
      keys == {"url"} \cup (IF mimeType # EmptyStr THEN {"mime_type"} ELSE {})
                      \cup (IF hasName THEN {"name"} ELSE {})
                      \cup (IF hasSize THEN {"size"} ELSE {})
  IN  IF url = EmptyStr THEN <<>>
      ELSE <<Obj([k \in keys |->
                    CASE k = "url" -> StrV(url)
                      [] k = "mime_type" -> StrV(mimeType)
                      [] k = "name" -> StrV(Trim(Prop(image, "name").v))
                      [] k = "size" -> Prop(image, "size")])>>

mapImagesForStorage(images) ==
  IF ~IsArray(images) THEN <<>> ELSE FlatMapSeq(StorageImageEntry, images.v)

\* { ...message, images: mapImagesForStorage(message?.images), imageBase64: null }
SerializeMessage(message) ==
  LET own == IF message.t = "object" THEN message.v[1] ELSE <<>>
  IN  Obj([k \in DOMAIN own \cup {"images", "imageBase64"} |->
             CASE k = "images" -> Arr(mapImagesForStorage(Prop(message, "images")))
               [] k = "imageBase64" -> Null
               [] OTHER -> own[k]])

serializeMessagesForStorage(messages) ==
  IF ~IsArray(messages) THEN <<>> ELSE MapSeq(SerializeMessage, messages.v)

\* one element of the snapshot listener's data.messages.map, read at time now
ReadMessage(message, now) ==
  Obj([role |-> Coalesce(Prop(message, "role"), StrV(S("user"))),
       content |-> Coalesce(Prop(message, "content"), StrV(EmptyStr)),
       timestamp |-> Coalesce(Prop(message, "timestamp"), now),
       images |-> Arr(normalizeImages(Prop(message, "images"))),
       imageBase64 |-> IF IsNonBlankString(Prop(message, "imageBase64"))
                       THEN StrV(Trim(Prop(message, "imageBase64").v)) ELSE Null])

\* Array.isArray(data?.messages) ? data.messages.map(...) : []
ReadMessages(messages, now) ==
  [i \in 1..Len(messages) |-> ReadMessage(messages[i], now)]

\* base64 data of an inline image
SmallData == <<Run("A", 4)>>

\* write-and-read cycles of one conversation
MaxCycles == 3

\* Date.now() when a snapshot is delivered
SnapshotTimes == {NumV(17000)}

StoredUrls == {Undef, StrV(S(" ")), StrV(Words(<<"https://u", " ">>))}

StoredMimeTypes == {Undef, StrV(S(" ")), StrV(Words(<<"image/jpeg", " ">>))}

StoredNames == {Undef, StrV(S(" ")), StrV(Words(<<"a.png", " ">>))}

StoredSizes == {Undef, NumV(12340), NonFinite}

\* an image record with exactly the fields that are present
ImageRecord(url, mimeType, mime_type, name, size, data) ==
  LET all == [url |-> url, mimeType |-> mimeType, mime_type |-> mime_type, name |-> name,
              size |-> size, data |-> data]
  IN  Obj([k \in {f \in DOMAIN all : all[f] # Undef} |-> all[k]])

\* the image records a message of the UI can carry, and null
UiImages ==
  {Null} \cup
  { ImageRecord(url, mimeType, mime_type, name, size, data) :
      url \in StoredUrls, mimeType \in StoredMimeTypes,
      mime_type \in {Undef, StrV(S("image/webp"))}, name \in StoredNames,
      size \in StoredSizes, data \in {Undef, StrV(SmallData)} }

\* what handleSendMessage puts in a user message for an uploaded file
UploadedImage ==
  mapImagesForUi(Arr(<<Obj([url |-> StrV(S("https://u")), mimeType |-> StrV(S("image/jpeg")),
                           name |-> StrV(S("a.png")), size |-> NumV(12340),
                           bucket |-> StrV(S("auiki-x-eataly.firebasestorage.app"))])>>))[1]

UiImageLists ==
  {<<>>} \cup {<<image>> : image \in UiImages}
         \cup {<<UploadedImage, image>> : image \in {Null, UploadedImage,
                                                      Obj([data |-> StrV(SmallData)])}}

\* { role: 'user', content, timestamp, images, imageBase64 }
UiMessage(images, imageBase64) ==
  Obj([role |-> StrV(S("user")), content |-> StrV(S("Hello")), timestamp |-> NumV(10),
       images |-> Arr(images), imageBase64 |-> imageBase64])

UiConversations ==
  { <<UiMessage(images, imageBase64)>> :
      images \in UiImageLists, imageBase64 \in {Null, StrV(SmallData)} }

StorageIdle ==
  /\ d_pc = "off"
  /\ d_chat = <<>>
  /\ d_src = <<>>
  /\ d_doc = <<>>
  /\ d_hist = <<>>

StorageInit ==
  /\ d_pc = "ui"
  /\ d_chat \in UiConversations
  /\ d_src = <<>>
  /\ d_doc = <<>>
  /\ d_hist = <<>>

\* setDoc(chatRef, { ..., messages: serializeMessagesForStorage(updatedMessages) })
StoreMessages ==
  /\ d_pc = "ui"
  /\ Len(d_hist) < MaxCycles
  /\ d_src' = d_chat
  /\ d_doc' = serializeMessagesForStorage(Arr(d_chat))
  /\ d_hist' = Append(d_hist, d_doc')
  /\ d_pc' = "stored"
  /\ UNCHANGED <<d_chat, dOthers>>

\* the snapshot listener delivers the stored document: setChats(nextChats)
Snapshot ==
  /\ d_pc = "stored"
  /\ \E now \in SnapshotTimes : d_chat' = ReadMessages(d_doc, now)
  /\ d_pc' = "ui"
  /\ UNCHANGED <<d_src, d_doc, d_hist, dOthers>>

StorageNext ==
  \/ StoreMessages
  \/ Snapshot

(***************************************************************************)
(* The image transcoder of the chat component: generateCompressedBase64     *)
(* and processImageFile.                                                    *)
(***************************************************************************)
MAX_IMAGE_INLINE_BYTES == 900000

MAX_IMAGE_DIMENSIONS == <<1600, 1280, 1024, 720, 512>>

\* JPEG_QUALITY_STEPS, in hundredths
JPEG_QUALITY_STEPS == <<88, 75, 65, 50>>

PNG == S("image/png")

JPEG == S("image/jpeg")

WEBP == S("image/webp")

\* readFileAsBase64's result for a file of n bytes: the padded base64 of its content
DirectRead(n) ==
  LET pad == (3 - (n % 3)) % 3
      body == 4 * ((n + 2) \div 3) - pad
  IN  (IF body > 0 THEN <<Run("A", body)>> ELSE <<>>)
      \o (IF pad > 0 THEN <<Run("=", pad)>> ELSE <<>>)

\* file.type.startsWith('image/') ? file.type : 'image/jpeg'
fallbackMime(file) ==
  IF file.type # <<>> /\ file.type[1].c \in {"image/png", "image/jpeg", "image/webp"}
  THEN file.type ELSE JPEG

\* originalMimeType === 'image/png' ? ['image/png', 'image/jpeg'] : [originalMimeType, 'image/jpeg']
mimeCandidates(file) ==
  IF fallbackMime(file) = PNG THEN <<PNG, JPEG>> ELSE <<fallbackMime(file), JPEG>>

\* mime === 'image/jpeg' ? JPEG_QUALITY_STEPS : [undefined]; <<>> is undefined
qualitySteps(mime) ==
  IF mime = JPEG THEN [i \in 1..Len(JPEG_QUALITY_STEPS) |-> <<JPEG_QUALITY_STEPS[i]>>]
  ELSE << <<>> >>

RECURSIVE EncodingsOf(_)
\* the two inner loops: every (mime, quality) of one maximum dimension
EncodingsOf(mimes) ==
  IF mimes = <<>> THEN <<>>
  ELSE [i \in 1..Len(qualitySteps(Head(mimes))) |->
          [mime |-> Head(mimes), quality |-> qualitySteps(Head(mimes))[i]]]
       \o EncodingsOf(Tail(mimes))

RECURSIVE LadderFrom(_, _)
\* the three nested loops: the toDataURL calls in the order the code makes them
LadderFrom(file, d) ==
  IF d > Len(MAX_IMAGE_DIMENSIONS) THEN <<>>
  ELSE LET encodings == EncodingsOf(mimeCandidates(file))
       IN  [i \in 1..Len(encodings) |->
              [maxDimension |-> MAX_IMAGE_DIMENSIONS[d], mime |-> encodings[i].mime,
               quality |-> encodings[i].quality]]
           \o LadderFrom(file, d + 1)

Ladder(file) == LadderFrom(file, 1)

\* Math.max(1, Math.round(side * Math.min(maxDimension / width, maxDimension / height, 1)))
TargetSide(side, image, maxDimension) ==
  LET longest == IF image.width > image.height THEN image.width ELSE image.height
      rounded == (2 * side * maxDimension + longest) \div (2 * longest)
  IN  IF longest <= maxDimension THEN side
      ELSE IF rounded < 1 THEN 1 ELSE rounded

\* canvas.toDataURL(mime, quality) after the comma: as long as the image makes it
Encoded(image, call) ==
  LET quality == IF call.quality = <<>> THEN 0 ELSE call.quality[1]
      length == (image.lengthAt[call.maxDimension] * image.percentAt[quality]) \div 100
  IN  IF length = 0 THEN <<>> ELSE <<Run("A", length)>>

\* what attempts.push receives for one toDataURL call
AttemptOf(image, call) ==
  [base64 |-> Encoded(image, call),
   bytes |-> estimateBase64Bytes(StrV(Encoded(image, call))),
   mimeType |-> call.mime,
   width |-> TargetSide(image.width, image, call.maxDimension),
   height |-> TargetSide(image.height, image, call.maxDimension)]

RECURSIVE AttemptsFrom(_, _, _)
\* the attempts pushed from position k of the ladder on: the loops end with the
\* first attempt of at most MAX_IMAGE_INLINE_BYTES
AttemptsFrom(image, ladder, k) ==
  IF k > Len(ladder) THEN <<>>
  ELSE LET attempt == AttemptOf(image, ladder[k])
       IN  IF attempt.bytes <= MAX_IMAGE_INLINE_BYTES THEN <<attempt>>
           ELSE <<attempt>> \o AttemptsFrom(image, ladder, k + 1)

Smaller_Last(prev, current) == current

\* (prev, current) => (current.bytes < prev.bytes ? current : prev)
Smaller(prev, current) ==
  IF current.bytes < prev.bytes THEN current ELSE prev

RECURSIVE Reduce(_, _)
\* attempts.reduce(...) without an initial value
Reduce(prev, rest) ==
  IF rest = <<>> THEN prev ELSE Reduce(Smaller(prev, Head(rest)), Tail(rest))

\* the states of generateCompressedBase64's promise
Promise(state, value) == [state |-> state, value |-> value]

\* { data, mimeType, width, height } of an attempt
Resolved(attempt) ==
  [data |-> attempt.base64, mimeType |-> attempt.mimeType,
   width |-> attempt.width, height |-> attempt.height]

\* what image.onload resolves with, given the attempts it pushed
Resolution(attempts) ==
  LET last == attempts[Len(attempts)]
  IN  IF last.bytes <= MAX_IMAGE_INLINE_BYTES THEN Resolved(last)
      ELSE Resolved(Reduce(Head(attempts), Tail(attempts)))

\* sizes of the files selected
FileSizes == {500000, 630000, 630001, 5000000}

Files == [type : {PNG, JPEG, WEBP}, size : FileSizes]

\* base64 length of the image's encodings at each maximum dimension
LengthProfiles ==
  { <<1200000, 1200000, 1200000, 1200000, 1200000>>,
    <<1600000, 1600000, 1600000, 1600000, 1600000>>,
    <<1600000, 1400000, 1200002, 1200000, 600000>>,
    <<1600000, 1200004, 1600000, 1300000, 1400000>>,
    <<1600000, 1600000, 0, 0, 0>> }

\* how an encoding's length depends on the quality (0: no quality argument)
PercentProfiles ==
  { [q \in {0, 88, 75, 65, 50} |-> 100],
    [q \in {0, 88, 75, 65, 50} |-> IF q = 0 THEN 100 ELSE q + 12],
    [q \in {0, 88, 75, 65, 50} |-> IF q = 0 THEN 70 ELSE 160 - q] }

LengthAt(profile) ==
  [d \in Range(MAX_IMAGE_DIMENSIONS) |->
     profile[CHOOSE i \in 1..Len(MAX_IMAGE_DIMENSIONS) : MAX_IMAGE_DIMENSIONS[i] = d]]

\* what the browser makes of a file
Images ==
  { [decodes |-> FALSE, canvas |-> TRUE, width |-> 0, height |-> 0,
     lengthAt |-> LengthAt(<<0, 0, 0, 0, 0>>), percentAt |-> [q \in {0, 88, 75, 65, 50} |-> 100]] }
  \cup
  { [decodes |-> TRUE, canvas |-> canvas, width |-> size[1], height |-> size[2],
     lengthAt |-> LengthAt(lengths), percentAt |-> percents] :
       canvas \in BOOLEAN, size \in {<<4000, 3000>>, <<0, 0>>},
       lengths \in LengthProfiles, percents \in PercentProfiles }

TranscodeIdle ==
  /\ t_pc = "off"
  /\ t_file = <<>>
  /\ t_image = <<>>
  /\ t_gen = Promise("none", <<>>)
  /\ t_calls = <<>>
  /\ t_attempts = <<>>
  /\ t_reads = <<>>
  /\ t_result = <<>>

TranscodeInit ==
  /\ t_pc = "idle"
  /\ t_file \in Files
  /\ t_image \in Images
  /\ t_gen = Promise("none", <<>>)
  /\ t_calls = <<>>
  /\ t_attempts = <<>>
  /\ t_reads = <<>>
  /\ t_result = <<>>

ReturnsDirectRead_AsJpeg ==
  /\ t_pc' = "returned"
  /\ t_result' = [data |-> DirectRead(t_file.size), mimeType |-> JPEG]

\* return { data, mimeType: fallbackMime } with the direct read of the file
ReturnsDirectRead ==
  /\ t_pc' = "returned"
  /\ t_result' = [data |-> DirectRead(t_file.size), mimeType |-> fallbackMime(t_file)]

\* processImageFile is called: lines 167-181, up to its first await
ProcessImageFile ==
  /\ t_pc = "idle"
  /\ IF t_file.size * 10 <= MAX_IMAGE_INLINE_BYTES * 7
     THEN t_pc' = "read" /\ UNCHANGED t_gen
     ELSE t_pc' = "decode" /\ t_gen' = Promise("pending", <<>>)
  /\ UNCHANGED <<t_file, t_image, t_calls, t_attempts, t_reads, t_result, tOthers>>

\* the read of line 174 settles
FirstRead(ok) ==
  /\ t_pc = "read"
  /\ t_reads' = Append(t_reads, IF ok THEN "ok" ELSE "fail")
  /\ IF ~ok THEN t_pc' = "catchRead" /\ UNCHANGED <<t_gen, t_result>>
     ELSE IF estimateBase64Bytes(StrV(DirectRead(t_file.size))) <= MAX_IMAGE_INLINE_BYTES
     THEN ReturnsDirectRead /\ UNCHANGED t_gen
     ELSE t_pc' = "decode" /\ t_gen' = Promise("pending", <<>>) /\ UNCHANGED t_result
  /\ UNCHANGED <<t_file, t_image, t_calls, t_attempts, tOthers>>

FirstReadSettles == \E ok \in BOOLEAN : FirstRead(ok)

\* image.onload: the whole ladder runs in this handler
ImageLoads ==
  /\ t_pc = "decode"
  /\ t_image.decodes
  /\ IF t_image.width = 0 \/ t_image.height = 0 \/ ~t_image.canvas
     THEN t_gen' = Promise("rejected", <<>>) /\ UNCHANGED <<t_calls, t_attempts>>
     ELSE LET attempts == AttemptsFrom(t_image, Ladder(t_file), 1)
          IN  /\ t_attempts' = attempts
              /\ t_calls' = SubSeq(Ladder(t_file), 1, Len(attempts))
              /\ t_gen' = Promise("resolved", Resolution(attempts))
  /\ t_pc' = "settle"
  /\ UNCHANGED <<t_file, t_image, t_reads, t_result, tOthers>>

\* image.onerror
ImageFails ==
  /\ t_pc = "decode"
  /\ ~t_image.decodes
  /\ t_gen' = Promise("rejected", <<>>)
  /\ t_pc' = "settle"
  /\ UNCHANGED <<t_file, t_image, t_calls, t_attempts, t_reads, t_result, tOthers>>

\* the await of line 181 settles: lines 182-189, or the catch of line 191
CompressionSettles ==
  /\ t_pc = "settle"
  /\ IF t_gen.state = "rejected" THEN t_pc' = "catchRead" /\ UNCHANGED t_result
     ELSE IF t_gen.value.data # EmptyStr
     THEN /\ t_pc' = "returned"
          /\ t_result' = [data |-> t_gen.value.data, mimeType |-> t_gen.value.mimeType]
     ELSE t_pc' = "fallbackRead" /\ UNCHANGED t_result
  /\ UNCHANGED <<t_file, t_image, t_gen, t_calls, t_attempts, t_reads, tOthers>>

\* the read of line 189 settles
FallbackRead(ok) ==
  /\ t_pc = "fallbackRead"
  /\ t_reads' = Append(t_reads, IF ok THEN "ok" ELSE "fail")
  /\ IF ok THEN ReturnsDirectRead ELSE t_pc' = "catchRead" /\ UNCHANGED t_result
  /\ UNCHANGED <<t_file, t_image, t_gen, t_calls, t_attempts, tOthers>>

FallbackReadSettles == \E ok \in BOOLEAN : FallbackRead(ok)

\* the read of line 192 settles
CatchRead(ok) ==
  /\ t_pc = "catchRead"
  /\ t_reads' = Append(t_reads, IF ok THEN "ok" ELSE "fail")
  /\ IF ok THEN ReturnsDirectRead ELSE t_pc' = "rejected" /\ UNCHANGED t_result
  /\ UNCHANGED <<t_file, t_image, t_gen, t_calls, t_attempts, tOthers>>

CatchReadSettles == \E ok \in BOOLEAN : CatchRead(ok)

TranscodeNext ==
  \/ ProcessImageFile
  \/ FirstReadSettles
  \/ ImageLoads
  \/ ImageFails
  \/ CompressionSettles
  \/ FallbackReadSettles
  \/ CatchReadSettles

(***************************************************************************)
(* The composer of the chat component and the events the user can raise     *)
(* while a send is running.                                                 *)
(***************************************************************************)
\* submits of one session
MaxSubmits == 3

\* attachments the composer can hold
MaxAttachments == 2

\* <button type="submit" disabled={isGenerating || isProcessingFiles || isUploading}>
SubmitDisabled ==
  k_flags.isGenerating \/ k_flags.isProcessingFiles \/ k_flags.isUploading

\* a send between its start and its end
Running(send) == send.phase \in {"uploading", "generating"}

NewSend(phase, images) == [phase |-> phase, images |-> images]

ComposerIdle ==
  /\ k_flags = <<>>
  /\ k_input = FALSE
  /\ k_attachments = 0
  /\ k_supports = FALSE
  /\ k_chat = 0
  /\ k_sends = <<>>
  /\ k_timers = 0

ComposerInit ==
  /\ k_flags = [isGenerating |-> FALSE, isUploading |-> FALSE, isProcessingFiles |-> FALSE]
  /\ k_input = FALSE
  /\ k_attachments = 0
  /\ k_supports \in BOOLEAN
  /\ k_chat = 1
  /\ k_sends = <<>>
  /\ k_timers = 0

\* the textarea's onChange (the textarea is disabled while isGenerating)
EditInput ==
  /\ k_flags # <<>>
  /\ ~k_flags.isGenerating
  /\ k_input' = ~k_input
  /\ UNCHANGED <<k_flags, k_attachments, k_supports, k_chat, k_sends, k_timers, kOthers>>

\* handleFileChange up to its await: setIsProcessingFiles(true)
SelectFiles ==
  /\ k_flags # <<>>
  /\ k_supports
  /\ ~(k_flags.isGenerating \/ k_flags.isProcessingFiles)
  /\ k_flags' = [k_flags EXCEPT !.isProcessingFiles = TRUE]
  /\ UNCHANGED <<k_input, k_attachments, k_supports, k_chat, k_sends, k_timers, kOthers>>

\* handleFileChange after Promise.all: the new attachments, or the catch; finally
\* setIsProcessingFiles(false)
FilesProcessed(ok) ==
  /\ k_flags # <<>>
  /\ k_flags.isProcessingFiles
  /\ k_attachments' = IF ok /\ k_attachments < MaxAttachments THEN k_attachments + 1
                      ELSE k_attachments
  /\ k_flags' = [k_flags EXCEPT !.isProcessingFiles = FALSE]
  /\ UNCHANGED <<k_input, k_supports, k_chat, k_sends, k_timers, kOthers>>

FilesProcessedSettles == \E ok \in BOOLEAN : FilesProcessed(ok)

\* handleRemoveImage
RemoveImage ==
  /\ k_attachments > 0
  /\ k_attachments' = k_attachments - 1
  /\ UNCHANGED <<k_flags, k_input, k_supports, k_chat, k_sends, k_timers, kOthers>>

\* handleSubmit up to the first await of handleSendMessage: with attachments
\* setIsUploading(true) and the probe is awaited; without, handleSendMessage runs
\* to setIsGenerating(true); accepted = FALSE is handleSendMessage throwing at once
Submit(accepted) ==
  /\ k_flags # <<>>
  /\ ~SubmitDisabled
  /\ Len(k_sends) < MaxSubmits
  /\ IF k_flags.isProcessingFiles \/ (~k_input /\ k_attachments = 0)
     THEN UNCHANGED <<k_flags, k_sends>>
     ELSE IF ~accepted
     THEN /\ k_sends' = Append(k_sends, NewSend("failed", k_attachments > 0))
          /\ UNCHANGED k_flags
     ELSE IF k_attachments > 0
     THEN /\ k_sends' = Append(k_sends, NewSend("uploading", TRUE))
          /\ k_flags' = [k_flags EXCEPT !.isUploading = TRUE]
     ELSE /\ k_sends' = Append(k_sends, NewSend("generating", FALSE))
          /\ k_flags' = [k_flags EXCEPT !.isGenerating = TRUE]
  /\ UNCHANGED <<k_input, k_attachments, k_supports, k_chat, k_timers, kOthers>>

SubmitForm == \E accepted \in BOOLEAN : Submit(accepted)

\* the probe and the uploads of send i settle: setIsGenerating(true), or the throw
\* that handleSubmit catches before its setIsUploading(false)
UploadsSettle(i, ok) ==
  /\ k_sends[i].phase = "uploading"
  /\ IF ok
     THEN /\ k_sends' = [k_sends EXCEPT ![i].phase = "generating"]
          /\ k_flags' = [k_flags EXCEPT !.isGenerating = TRUE]
     ELSE /\ k_sends' = [k_sends EXCEPT ![i].phase = "failed"]
          /\ k_flags' = [k_flags EXCEPT !.isUploading = FALSE]
  /\ UNCHANGED <<k_input, k_attachments, k_supports, k_chat, k_timers, kOthers>>

UploadsSettled == \E i \in 1..Len(k_sends), ok \in BOOLEAN : UploadsSettle(i, ok)

\* send i persisted its reply or failed: finally setIsGenerating(false); then
\* handleSubmit schedules the clearing of the composer and setIsUploading(false)
GenerationEnds(i) ==
  /\ k_sends[i].phase = "generating"
  /\ k_sends' = [k_sends EXCEPT ![i].phase = "done"]
  /\ k_flags' = [k_flags EXCEPT !.isGenerating = FALSE, !.isUploading = FALSE]
  /\ k_timers' = k_timers + 1
  /\ UNCHANGED <<k_input, k_attachments, k_supports, k_chat, kOthers>>

GenerationEnded == \E i \in 1..Len(k_sends) : GenerationEnds(i)

\* the setTimeout callback: setInput(''), clearAttachments(), setLocalError('')
ClearTimerFires ==
  /\ k_timers > 0
  /\ k_timers' = k_timers - 1
  /\ k_input' = FALSE
  /\ k_attachments' = 0
  /\ k_flags' = [k_flags EXCEPT !.isUploading = FALSE]
  /\ UNCHANGED <<k_supports, k_chat, k_sends, kOthers>>

\* the settings panel (disabled while isGenerating) selects a model with or
\* without image support; without, the effect of lines 258-262 runs clearAttachments
ChangeModel ==
  /\ k_flags # <<>>
  /\ ~k_flags.isGenerating
  /\ k_supports' = ~k_supports
  /\ IF k_supports /\ k_attachments > 0
     THEN /\ k_attachments' = 0
          /\ k_flags' = [k_flags EXCEPT !.isUploading = FALSE]
     ELSE UNCHANGED <<k_attachments, k_flags>>
  /\ UNCHANGED <<k_input, k_chat, k_sends, k_timers, kOthers>>

\* handleSelectChat
SwitchChat ==
  /\ k_chat \in {1, 2}
  /\ k_chat' = 3 - k_chat
  /\ UNCHANGED <<k_flags, k_input, k_attachments, k_supports, k_sends, k_timers, kOthers>>

ComposerNext ==
  \/ EditInput
  \/ SelectFiles
  \/ FilesProcessedSettles
  \/ RemoveImage
  \/ SubmitForm
  \/ UploadsSettled
  \/ GenerationEnded
  \/ ClearTimerFires
  \/ ChangeModel
  \/ SwitchChat

(***************************************************************************)
(* api/generate.js: getAccessToken and its module-level cache.              *)
(***************************************************************************)
\* getAccessToken calls of one instance
MaxTokenCalls == 3

\* advances of the clock between events
MaxTicks == 3

\* seconds the clock advances by
ClockSteps == {59, 60, 3480}

\* the access token of the n-th exchange
TokenOf(n) == StrV(<<Run("t", n)>>)

\* how the fetch of token_uri settles: rejected or not ok (ok = FALSE), or a JSON
\* body without a usable access_token, or one with a token and a lifetime
TokenResponses ==
  { [ok |-> FALSE, access_token |-> Undef, expires_in |-> Undef],
    [ok |-> TRUE, access_token |-> Undef, expires_in |-> NumV(36000)],
    [ok |-> TRUE, access_token |-> StrV(EmptyStr), expires_in |-> Undef] }
  \cup [ok : {TRUE}, access_token : {StrV(S("token"))},
        expires_in : {Undef, NumV(1200), NumV(72000)}]

ExpiryOf_Uncapped(nowInSeconds, response) ==
  nowInSeconds + Coalesce(response.expires_in, NumV(36000)).v[1] \div 10

\* nowInSeconds + Math.min(tokenJson?.expires_in ?? 3600, 3600)
ExpiryOf(nowInSeconds, response) ==
  LET expiresIn == Coalesce(response.expires_in, NumV(36000)).v[1] \div 10
  IN  nowInSeconds + (IF expiresIn < 3600 THEN expiresIn ELSE 3600)

\* cachedAccessToken && cachedAccessTokenExpiry - 60 > nowInSeconds
CacheIsFresh(cache, nowInSeconds) ==
  cache.token \notin {Null, StrV(EmptyStr)} /\ cache.expiry - 60 > nowInSeconds

TokenCall(start, phase, exchange, value) ==
  [start |-> start, phase |-> phase, exchange |-> exchange, value |-> value]

TokenIdle ==
  /\ g_account = "off"
  /\ g_now = 0
  /\ g_ticks = 0
  /\ g_cache = <<>>
  /\ g_calls = <<>>
  /\ g_exchanges = 0

TokenInit ==
  /\ g_account \in {"ok", "missing", "incomplete"}
  /\ g_now = 0
  /\ g_ticks = 0
  /\ g_cache = [token |-> Null, expiry |-> 0]
  /\ g_calls = <<>>
  /\ g_exchanges = 0

\* time passes
Tick(seconds) ==
  /\ g_account # "off"
  /\ g_ticks < MaxTicks
  /\ g_ticks' = g_ticks + 1
  /\ g_now' = g_now + seconds
  /\ UNCHANGED <<g_account, g_cache, g_calls, g_exchanges, gOthers>>

ClockAdvances == \E seconds \in ClockSteps : Tick(seconds)

\* getAccessToken is called: lines 330-366, up to the await of the fetch
GetAccessToken ==
  /\ g_account # "off"
  /\ Len(g_calls) < MaxTokenCalls
  /\ IF g_account = "missing"
     THEN /\ g_calls' = Append(g_calls, TokenCall(g_now, "thrown", 0, Null))
          /\ UNCHANGED g_exchanges
     ELSE IF CacheIsFresh(g_cache, g_now)
     THEN /\ g_calls' = Append(g_calls, TokenCall(g_now, "returned", 0, g_cache.token))
          /\ UNCHANGED g_exchanges
     ELSE IF g_account = "incomplete"
     THEN /\ g_calls' = Append(g_calls, TokenCall(g_now, "thrown", 0, Null))
          /\ UNCHANGED g_exchanges
     ELSE /\ g_exchanges' = g_exchanges + 1
          /\ g_calls' = Append(g_calls, TokenCall(g_now, "exchanging", g_exchanges + 1, Null))
  /\ UNCHANGED <<g_account, g_now, g_ticks, g_cache, gOthers>>

\* the fetch of call i settled with response: lines 379-398
ExchangeSettles(i, response) ==
  /\ g_calls[i].phase = "exchanging"
  /\ LET accessToken == IF response.access_token = StrV(S("token"))
                        THEN TokenOf(g_calls[i].exchange) ELSE response.access_token
     IN  IF ~response.ok \/ accessToken \in {Undef, StrV(EmptyStr)}
         THEN /\ g_calls' = [g_calls EXCEPT ![i].phase = "thrown"]
              /\ UNCHANGED g_cache
         ELSE /\ g_cache' = [token |-> accessToken,
                             expiry |-> ExpiryOf(g_calls[i].start, response)]
              /\ g_calls' = [g_calls EXCEPT ![i].phase = "returned", ![i].value = accessToken]
  /\ UNCHANGED <<g_account, g_now, g_ticks, g_exchanges, gOthers>>

ExchangeSettled ==
  \E i \in 1..Len(g_calls), response \in TokenResponses : ExchangeSettles(i, response)

TokenNext ==
  \/ ClockAdvances
  \/ GetAccessToken
  \/ ExchangeSettled

(***************************************************************************)
(* estimateBase64Bytes (App.jsx and the chat component hold the same text)  *)
(* applied to one value.                                                    *)
(***************************************************************************)
MaxEncodedLen == 24

\* lengths of the order of the inline limits
LargeLengths == {1199998, 1200000, 1200001}

\* n characters of the alphabet followed by pad '=' characters
Encoded64(n, pad) ==
  (IF n = 0 THEN <<>> ELSE <<Run("A", n)>>) \o (IF pad = 0 THEN <<>> ELSE <<Run("=", pad)>>)

EstimateInputs ==
  {Undef, Null, NumV(40), Obj([data |-> StrV(S("AAAA"))]), Arr(<<StrV(S("AAAA"))>>)}
    \cup {StrV(Encoded64(n, pad)) : n \in (0..MaxEncodedLen) \cup LargeLengths, pad \in 0..3}
    \cup {StrV(<<Run("A", 2), Run("=", 1), Run("B", 1)>>),
          StrV(<<Run("=", 2), Run("A", 5), Run("=", 1)>>)}

EstimateIdle ==
  /\ e_in = Undef
  /\ e_out = <<0>>

EstimateInit ==
  /\ e_in \in EstimateInputs
  /\ e_out = <<>>

Estimate ==
  /\ e_out = <<>>
  /\ e_out' = <<estimateBase64Bytes(e_in)>>
  /\ UNCHANGED <<e_in, eOthers>>

\* the next value is measured
NextEstimate ==
  /\ e_out # <<>>
  /\ e_in' \in EstimateInputs
  /\ e_out' = <<>>
  /\ UNCHANGED eOthers

EstimateNext ==
  \/ Estimate
  \/ NextEstimate

(***************************************************************************)
(* The pending attachments of the chat component: selection, removal,       *)
(* clearing, the session copy, the preview URLs and the deferred clean-up.  *)
(* Sends are taken one at a time here.                                      *)
(***************************************************************************)
\* successful sends of one run
MaxCompleted == 1

\* object URLs created in one run
MaxPreviews == 3

ICON == Words(<<"image/x", "-", "icon">>)

\* the files the user picks from, and what processImageFile resolves with for
\* each: two files of the same content, the same content under another type,
\* and another content
PickedFiles == {"f1", "f2", "f3", "f4"}

Processed(file) ==
  IF file \in {"f1", "f2"} THEN [mimeType |-> PNG, data |-> DataA]
  ELSE IF file = "f3" THEN [mimeType |-> ICON, data |-> DataA]
  ELSE [mimeType |-> PNG, data |-> DataB]

\* one or two distinct files picked in the dialog
Selections ==
  {<<f>> : f \in PickedFiles} \cup
  {<<f, g>> : f \in {"f1", "f3"}, g \in {"f2", "f4"}}

Signature_DataOnly(item) == item.data

\* `${item.mimeType ?? 'image/png'}-${item.data}`
Signature(item) == Canon(item.mimeType \o S("-") \o item.data)

PendingAttachment(id, processed, previewUrl, added) ==
  [id |-> id, mimeType |-> processed.mimeType, data |-> processed.data,
   previewUrl |-> previewUrl, added |-> added]

\* the effect of lines 340-369: the session copy follows the list
Serializable(list) ==
  [i \in 1..Len(list) |-> [id |-> list[i].id, mimeType |-> list[i].mimeType,
                           data |-> list[i].data]]

RECURSIVE Revoked(_, _)
\* URL.revokeObjectURL for every handle of the sequence
Revoked(urls, handles) ==
  IF handles = <<>> THEN urls
  ELSE Revoked([urls EXCEPT ![Head(handles)] = "revoked"], Tail(handles))

PreviewsOf(list) == [i \in 1..Len(list) |-> list[i].previewUrl]

RECURSIVE MergeFrom(_, _, _)
\* the updater of lines 541-558: upcoming attachments are pushed unless their
\* signature is in existingSignatures; acc holds next and what was rejected
MergeFrom(acc, upcoming, k) ==
  IF k > Len(upcoming) THEN acc
  ELSE LET attachment == upcoming[k]
           existingSignatures == {Signature(acc.next[i]) : i \in 1..Len(acc.next)}
       IN  IF Signature(attachment) \notin existingSignatures
           THEN MergeFrom([acc EXCEPT !.next = Append(acc.next, attachment)], upcoming, k + 1)
           ELSE MergeFrom([acc EXCEPT !.rejected =
                             Append(acc.rejected,
                                    [attachment |-> attachment, against |-> acc.next])],
                          upcoming, k + 1)

PendingIdle ==
  /\ a_mounted = FALSE
  /\ a_supports = FALSE
  /\ a_phase = "off"
  /\ a_input = <<>>
  /\ a_list = <<>>
  /\ a_session = <<>>
  /\ a_urls = <<>>
  /\ a_proc = <<>>
  /\ a_stray = 0
  /\ a_rejected = <<>>
  /\ a_done = 0
  /\ a_timers = {}

PendingInit ==
  /\ a_mounted = TRUE
  /\ a_supports = TRUE
  /\ a_phase = "idle"
  /\ a_input = <<>>
  /\ a_list = <<>>
  /\ a_session = <<>>
  /\ a_urls = <<>>
  /\ a_proc = <<>>
  /\ a_stray = 0
  /\ a_rejected = <<>>
  /\ a_done = 0
  /\ a_timers = {}

\* clearAttachments: every preview of the list is revoked, the list and the
\* session copy are emptied
ClearAttachments ==
  /\ a_urls' = Revoked(a_urls, PreviewsOf(a_list))
  /\ a_list' = <<>>
  /\ a_session' = <<>>

\* the textarea's onChange (disabled while isGenerating)
TypeText ==
  /\ a_mounted
  /\ a_phase \in {"idle", "uploading"}
  /\ a_input' = [added |-> a_done]
  /\ a_input' # a_input
  /\ UNCHANGED <<a_mounted, a_supports, a_phase, a_list, a_session, a_urls, a_proc, a_stray,
                 a_rejected, a_done, a_timers, aOthers>>

\* handleFileChange up to its await (the input is rendered with supportsImages
\* and disabled while isGenerating or isProcessingFiles)
PickFiles(selection) ==
  /\ a_mounted
  /\ a_supports
  /\ a_phase \in {"idle", "uploading"}
  /\ a_proc = <<>>
  /\ Len(a_urls) + a_stray + Len(selection) <= MaxPreviews
  /\ a_proc' = [files |-> selection, previews |-> [i \in 1..Len(selection) |-> 0]]
  /\ UNCHANGED <<a_mounted, a_supports, a_phase, a_input, a_list, a_session, a_urls, a_stray,
                 a_rejected, a_done, a_timers, aOthers>>

FilesPicked == \E selection \in Selections : PickFiles(selection)

\* processImageFile settles for file i of the selection.  Resolved: the mapper
\* goes on to URL.createObjectURL, and when it was the last one Promise.all
\* resolves and the updater merges.  Rejected: Promise.all rejects, the catch and
\* the finally run, and the mappers still pending go on by themselves.
FileProcessed(i, ok) ==
  /\ a_proc # <<>>
  /\ i \in 1..Len(a_proc.files)
  /\ a_proc.previews[i] = 0
  /\ IF ok
     THEN LET handle == Len(a_urls) + 1
              previews == [a_proc.previews EXCEPT ![i] = handle]
              upcoming == [k \in 1..Len(previews) |->
                             PendingAttachment(previews[k], Processed(a_proc.files[k]),
                                               previews[k], a_done)]
              merged == MergeFrom([next |-> a_list, rejected |-> <<>>], upcoming, 1)
              duplicates == [k \in 1..Len(merged.rejected) |->
                               merged.rejected[k].attachment.previewUrl]
          IN  IF \E k \in 1..Len(previews) : previews[k] = 0
              THEN /\ a_proc' = [a_proc EXCEPT !.previews = previews]
                   /\ a_urls' = Append(a_urls, "live")
                   /\ UNCHANGED <<a_list, a_session, a_rejected, a_stray>>
              ELSE /\ a_proc' = <<>>
                   /\ a_list' = merged.next
                   /\ a_session' = Serializable(merged.next)
                   /\ a_rejected' = merged.rejected
                   /\ a_urls' = Revoked(Append(a_urls, "live"), duplicates)
                   /\ UNCHANGED a_stray
     ELSE /\ a_proc' = <<>>
          /\ a_stray' = a_stray +
               Cardinality({k \in 1..Len(a_proc.files) : k # i /\ a_proc.previews[k] = 0})
          /\ UNCHANGED <<a_list, a_session, a_rejected, a_urls>>
  /\ UNCHANGED <<a_mounted, a_supports, a_phase, a_input, a_done, a_timers, aOthers>>

FileSettles == \E i \in 1..2, ok \in BOOLEAN : FileProcessed(i, ok)

\* a mapper of a call that is over settles: resolved, it creates its object URL
StrayProcessed(ok) ==
  /\ a_stray > 0
  /\ a_stray' = a_stray - 1
  /\ a_urls' = IF ok THEN Append(a_urls, "live") ELSE a_urls
  /\ UNCHANGED <<a_mounted, a_supports, a_phase, a_input, a_list, a_session, a_proc,
                 a_rejected, a_done, a_timers, aOthers>>

StraySettles == \E ok \in BOOLEAN : StrayProcessed(ok)

\* handleRemoveImage
RemoveAttachment(id) ==
  /\ a_mounted
  /\ \E k \in 1..Len(a_list) : a_list[k].id = id
  /\ LET toRemove == CHOOSE k \in 1..Len(a_list) :
                       a_list[k].id = id /\ \A j \in 1..(k - 1) : a_list[j].id # id
         keeps(item) == item.id # id
     IN  /\ a_urls' = Revoked(a_urls, <<a_list[toRemove].previewUrl>>)
         /\ a_list' = SelectSeq(a_list, keeps)
         /\ a_session' = Serializable(SelectSeq(a_list, keeps))
  /\ UNCHANGED <<a_mounted, a_supports, a_phase, a_input, a_proc, a_stray, a_rejected,
                 a_done, a_timers, aOthers>>

AttachmentRemoved == \E id \in 1..MaxPreviews : RemoveAttachment(id)

\* the settings panel (disabled while isGenerating) selects a model with or
\* without image support; the effect of lines 258-262 clears the attachments
SupportChanges ==
  /\ a_mounted
  /\ a_phase \in {"idle", "uploading"}
  /\ a_supports' = ~a_supports
  /\ IF a_supports /\ a_list # <<>>
     THEN ClearAttachments
     ELSE UNCHANGED <<a_list, a_session, a_urls>>
  /\ UNCHANGED <<a_mounted, a_phase, a_input, a_proc, a_stray, a_rejected, a_done, a_timers, aOthers>>

\* handleSubmit up to its await
SubmitPending ==
  /\ a_mounted
  /\ a_phase = "idle"
  /\ a_proc = <<>>
  /\ a_input # <<>> \/ a_list # <<>>
  /\ a_done < MaxCompleted
  /\ a_phase' = IF a_list # <<>> THEN "uploading" ELSE "generating"
  /\ UNCHANGED <<a_mounted, a_supports, a_input, a_list, a_session, a_urls, a_proc, a_stray,
                 a_rejected, a_done, a_timers, aOthers>>

\* the probe and the uploads settle: setIsGenerating(true), or the throw that
\* handleSubmit catches
PendingUploads(ok) ==
  /\ a_phase = "uploading"
  /\ a_phase' = IF ok THEN "generating" ELSE "idle"
  /\ UNCHANGED <<a_mounted, a_supports, a_input, a_list, a_session, a_urls, a_proc, a_stray,
                 a_rejected, a_done, a_timers, aOthers>>

PendingUploadsSettle == \E ok \in BOOLEAN : PendingUploads(ok)

\* onSendMessage settles: resolved, lines 476-489 schedule the clean-up
SendCompletes(ok) ==
  /\ a_phase = "generating"
  /\ a_phase' = "idle"
  /\ IF ok
     THEN /\ a_done' = a_done + 1
          /\ a_timers' = a_timers \cup {a_done + 1}
     ELSE UNCHANGED <<a_done, a_timers>>
  /\ UNCHANGED <<a_mounted, a_supports, a_input, a_list, a_session, a_urls, a_proc, a_stray,
                 a_rejected, aOthers>>

SendCompleted == \E ok \in BOOLEAN : SendCompletes(ok)

\* the setTimeout callback of send n: setInput(''), clearAttachments()
CleanUp(n) ==
  /\ n \in a_timers
  /\ a_timers' = a_timers \ {n}
  /\ a_input' = <<>>
  /\ ClearAttachments
  /\ UNCHANGED <<a_mounted, a_supports, a_phase, a_proc, a_stray, a_rejected, a_done, aOthers>>

CleanUpRuns == \E n \in 1..MaxCompleted : CleanUp(n)

\* the component is torn down: the clean-up of lines 235-241 revokes the
\* previews of attachmentsRef.current; the mappers of a pending selection go on
Unmount ==
  /\ a_mounted
  /\ a_phase = "idle"
  /\ a_timers = {}
  /\ a_mounted' = FALSE
  /\ a_urls' = Revoked(a_urls, PreviewsOf(a_list))
  /\ a_list' = <<>>
  /\ a_input' = <<>>
  /\ a_proc' = <<>>
  /\ a_stray' = a_stray + (IF a_proc = <<>> THEN 0
                           ELSE Cardinality({k \in 1..Len(a_proc.files) : a_proc.previews[k] = 0}))
  /\ UNCHANGED <<a_supports, a_phase, a_session, a_rejected, a_done, a_timers, aOthers>>

\* the component mounts again: the effect of lines 264-338 restores the session
\* copy, every item with a File rebuilt by base64ToFile and a new object URL
Mount ==
  /\ ~a_mounted
  /\ Len(a_urls) + a_stray + Len(a_session) <= MaxPreviews
  /\ a_mounted' = TRUE
  /\ LET restored == [k \in 1..Len(a_session) |->
                        PendingAttachment(a_session[k].id, a_session[k],
                                          Len(a_urls) + k, a_done)]
         created == a_urls \o [k \in 1..Len(a_session) |-> "live"]
     IN  IF a_supports \/ restored = <<>>
         THEN /\ a_list' = restored
              /\ a_urls' = created
              /\ UNCHANGED a_session
         ELSE /\ a_list' = <<>>
              /\ a_urls' = Revoked(created, PreviewsOf(restored))
              /\ a_session' = <<>>
  /\ UNCHANGED <<a_supports, a_phase, a_input, a_proc, a_stray, a_rejected, a_done,
                 a_timers, aOthers>>

PendingNext ==
  \/ TypeText
  \/ FilesPicked
  \/ FileSettles
  \/ StraySettles
  \/ AttachmentRemoved
  \/ SupportChanges
  \/ SubmitPending
  \/ PendingUploadsSettle
  \/ SendCompleted
  \/ CleanUpRuns
  \/ Unmount
  \/ Mount

(***************************************************************************)
(* App.jsx: the per-user generation settings: loadUserPreferences, the      *)
(* auth listener and the debounced save effect.                             *)
(***************************************************************************)
\* sign-ins of one run
MaxSessions == 3

\* preference writes of one run
MaxWrites == 2

SAVE_DELAY_MS == 500

Users == {1, 2}

\* what handleUpdateSettings is called with
SettingsEdits ==
  { [model |-> StrV(S("gemini-2.5-pro"))],
    [model |-> StrV(DEFAULT_MODEL)],
    [temperature |-> NumV(2)] }

\* { ...base, ...partial }
Spread(base, partial) ==
  [k \in DOMAIN base \cup DOMAIN partial |->
     IF k \in DOMAIN partial THEN partial[k] ELSE base[k]]

\* the documents at the start: user 1 stored a model, user 2 has no document
InitialStore == <<[model |-> StrV(S("gemini-2.5-pro"))], <<>>>>

\* the callback of the save effect: whose document, which settings, how late
SaveTimer(uid, settings) == [uid |-> uid, settings |-> settings, delay |-> SAVE_DELAY_MS]

Reschedule_KeepsPending(timers, user, loaded, settings) ==
  IF user = 0 \/ ~loaded THEN timers ELSE timers \cup {SaveTimer(user, settings)}

\* the save effect runs again: its clean-up clears the timeout of the run
\* before, and with a user and isSettingsLoaded a new one is set
Reschedule(timers, user, loaded, settings) ==
  IF user = 0 \/ ~loaded THEN {} ELSE {SaveTimer(user, settings)}

\* the preferences object of the setDoc call
PreferencesOf(settings) ==
  [model |-> settings.model, temperature |-> settings.temperature,
   topP |-> settings.topP, instructions |-> settings.instructions]

LoadOf(uid, session) == [uid |-> uid, session |-> session]

PreferencesIdle ==
  /\ p_user = 0
  /\ p_session = 0
  /\ p_loaded = FALSE
  /\ p_settings = <<>>
  /\ p_loads = {}
  /\ p_timers = {}
  /\ p_store = <<>>
  /\ p_writes = <<>>

PreferencesInit ==
  /\ p_user = 0
  /\ p_session = 0
  /\ p_loaded = FALSE
  /\ p_settings = DEFAULT_SETTINGS
  /\ p_loads = {}
  /\ p_timers = {}
  /\ p_store = InitialStore
  /\ p_writes = <<>>

\* onAuthStateChanged with a user: loadUserPreferences starts
SignIn(uid) ==
  /\ p_store # <<>>
  /\ p_user = 0
  /\ p_session < MaxSessions
  /\ p_user' = uid
  /\ p_session' = p_session + 1
  /\ p_loads' = p_loads \cup {LoadOf(uid, p_session + 1)}
  /\ p_timers' = Reschedule(p_timers, uid, p_loaded, p_settings)
  /\ UNCHANGED <<p_loaded, p_settings, p_store, p_writes, pOthers>>

SignedIn == \E uid \in Users : SignIn(uid)

\* onAuthStateChanged with null
SignOut ==
  /\ p_user # 0
  /\ p_user' = 0
  /\ p_settings' = DEFAULT_SETTINGS
  /\ p_loaded' = FALSE
  /\ p_timers' = Reschedule(p_timers, 0, FALSE, DEFAULT_SETTINGS)
  /\ UNCHANGED <<p_session, p_loads, p_store, p_writes, pOthers>>

\* getDoc of a loadUserPreferences call settles
LoadSettles(load, ok) ==
  /\ load \in p_loads
  /\ p_loads' = p_loads \ {load}
  /\ p_settings' = IF ok /\ p_store[load.uid] # <<>>
                   THEN Spread(Spread(p_settings, DEFAULT_SETTINGS), p_store[load.uid])
                   ELSE DEFAULT_SETTINGS
  /\ p_loaded' = TRUE
  /\ p_timers' = IF p_settings' = p_settings /\ p_loaded
                 THEN p_timers
                 ELSE Reschedule(p_timers, p_user, TRUE, p_settings')
  /\ UNCHANGED <<p_user, p_session, p_store, p_writes, pOthers>>

LoadSettled == \E load \in p_loads, ok \in BOOLEAN : LoadSettles(load, ok)

\* handleUpdateSettings
UpdateSettings(partialSettings) ==
  /\ p_user # 0
  /\ p_settings' = Spread(p_settings, partialSettings)
  /\ p_settings' # p_settings
  /\ p_timers' = Reschedule(p_timers, p_user, p_loaded, p_settings')
  /\ UNCHANGED <<p_user, p_session, p_loaded, p_loads, p_store, p_writes, pOthers>>

SettingsUpdated == \E partialSettings \in SettingsEdits : UpdateSettings(partialSettings)

\* a timeout of the save effect expires: setDoc(users/{uid}, {preferences}, merge);
\* the log keeps who was signed in, isSettingsLoaded, whether the settings were
\* the current ones and whether the load of this sign-in had settled
SaveFires(timer, ok) ==
  /\ timer \in p_timers
  /\ Len(p_writes) < MaxWrites
  /\ p_timers' = p_timers \ {timer}
  /\ p_store' = IF ok THEN [p_store EXCEPT ![timer.uid] = PreferencesOf(timer.settings)]
                ELSE p_store
  /\ p_writes' = Append(p_writes,
       [uid |-> timer.uid, preferences |-> PreferencesOf(timer.settings),
        delay |-> timer.delay, user |-> p_user, loaded |-> p_loaded,
        latest |-> timer.settings = p_settings,
        ownLoad |-> LoadOf(p_user, p_session) \notin p_loads])
  /\ UNCHANGED <<p_user, p_session, p_loaded, p_settings, p_loads, pOthers>>

SaveFired == \E timer \in p_timers, ok \in BOOLEAN : SaveFires(timer, ok)

PreferencesNext ==
  \/ SignedIn
  \/ SignOut
  \/ LoadSettled
  \/ SettingsUpdated
  \/ SaveFired

(***************************************************************************)
(* Specifications.                                                         *)
(***************************************************************************)
HandlerIdle ==
  /\ h_pc = "off"
  /\ h_req = <<>>
  /\ h_headers = <<>>
  /\ h_body = <<>>
  /\ h_calls = <<>>
  /\ h_resp = <<>>

InitHandler == HandlerInit /\ BuildIdle /\ SendIdle /\ UploadIdle /\ ClassifyIdle /\ StorageIdle /\ TranscodeIdle /\ ComposerIdle /\ TokenIdle /\ EstimateIdle /\ PendingIdle /\ PreferencesIdle

\* the serverless function serving requests one after another
SpecHandler == InitHandler /\ [][HandlerNext]_vars

InitBuild == BuildInit /\ HandlerIdle /\ SendIdle /\ UploadIdle /\ ClassifyIdle /\ StorageIdle /\ TranscodeIdle /\ ComposerIdle /\ TokenIdle /\ EstimateIdle /\ PendingIdle /\ PreferencesIdle

\* the payload builder applied to every bounded input
SpecBuild == InitBuild /\ [][BuildNext]_vars

InitSend == SendInit /\ HandlerIdle /\ BuildIdle /\ UploadIdle /\ ClassifyIdle /\ StorageIdle /\ TranscodeIdle /\ ComposerIdle /\ TokenIdle /\ EstimateIdle /\ PendingIdle /\ PreferencesIdle

\* sends issued one after another from the composer
SpecSend == InitSend /\ [][SendNext]_vars

\* the same with what the runtime guarantees: every request of a send settles
\* and a streaming interval that is set keeps ticking; the user's events
\* (sending, selecting a chat) are under no obligation
FairSpecSend ==
  /\ SpecSend
  /\ WF_vars(ProbeSettles)
  /\ WF_vars(UploadSettles)
  /\ WF_vars(EnsureSettles)
  /\ WF_vars(UserWriteSettles)
  /\ WF_vars(GenerateSettles)
  /\ WF_vars(StreamEnds)
  /\ WF_vars(AssistantWriteSettles)

InitUpload == UploadInit /\ HandlerIdle /\ BuildIdle /\ SendIdle /\ ClassifyIdle /\ StorageIdle /\ TranscodeIdle /\ ComposerIdle /\ TokenIdle /\ EstimateIdle /\ PendingIdle /\ PreferencesIdle

\* one upload batch under every outcome of each attempt
SpecUpload == InitUpload /\ [][UploadNext]_vars

InitClassify == ClassifyInit /\ HandlerIdle /\ BuildIdle /\ SendIdle /\ UploadIdle /\ StorageIdle /\ TranscodeIdle /\ ComposerIdle /\ TokenIdle /\ EstimateIdle /\ PendingIdle /\ PreferencesIdle

\* the classifier applied to every error of the family
SpecClassify == InitClassify /\ [][ClassifyNext]_vars

InitStorage == StorageInit /\ HandlerIdle /\ BuildIdle /\ SendIdle /\ UploadIdle /\ ClassifyIdle /\ TranscodeIdle /\ ComposerIdle /\ TokenIdle /\ EstimateIdle /\ PendingIdle /\ PreferencesIdle

\* one conversation written to the store and read back, over and over
SpecStorage == InitStorage /\ [][StorageNext]_vars

InitTranscode == TranscodeInit /\ HandlerIdle /\ BuildIdle /\ SendIdle /\ UploadIdle /\ ClassifyIdle /\ StorageIdle /\ ComposerIdle /\ TokenIdle /\ EstimateIdle /\ PendingIdle /\ PreferencesIdle

\* one selected file going through processImageFile
SpecTranscode == InitTranscode /\ [][TranscodeNext]_vars

InitComposer == ComposerInit /\ HandlerIdle /\ BuildIdle /\ SendIdle /\ UploadIdle /\ ClassifyIdle /\ StorageIdle /\ TranscodeIdle /\ TokenIdle /\ EstimateIdle /\ PendingIdle /\ PreferencesIdle

\* the composer under every interleaving of user events and settling sends
SpecComposer == InitComposer /\ [][ComposerNext]_vars

InitToken == TokenInit /\ HandlerIdle /\ BuildIdle /\ SendIdle /\ UploadIdle /\ ClassifyIdle /\ StorageIdle /\ TranscodeIdle /\ ComposerIdle /\ EstimateIdle /\ PendingIdle /\ PreferencesIdle

\* one instance of the function serving getAccessToken calls as time passes
SpecToken == InitToken /\ [][TokenNext]_vars

InitEstimate == EstimateInit /\ HandlerIdle /\ BuildIdle /\ SendIdle /\ UploadIdle /\ ClassifyIdle /\ StorageIdle /\ TranscodeIdle /\ ComposerIdle /\ TokenIdle /\ PendingIdle /\ PreferencesIdle

\* the byte estimate of every bounded input
SpecEstimate == InitEstimate /\ [][EstimateNext]_vars

InitPending == PendingInit /\ HandlerIdle /\ BuildIdle /\ SendIdle /\ UploadIdle /\ ClassifyIdle /\ StorageIdle /\ TranscodeIdle /\ ComposerIdle /\ TokenIdle /\ EstimateIdle /\ PreferencesIdle

\* the pending attachments under every interleaving of the user's events
SpecPending == InitPending /\ [][PendingNext]_vars

InitPreferences == PreferencesInit /\ HandlerIdle /\ BuildIdle /\ SendIdle /\ UploadIdle /\ ClassifyIdle /\ StorageIdle /\ TranscodeIdle /\ ComposerIdle /\ TokenIdle /\ EstimateIdle /\ PendingIdle

\* the settings of the users signing in and out, loading, editing and saving
SpecPreferences == InitPreferences /\ [][PreferencesNext]_vars

(***************************************************************************)
(* Properties of the POST handler.                                         *)
(***************************************************************************)
IsPost == h_req # <<>> /\ h_req.method = "POST"

\* the model the request asks for, read off the request itself
AskedModel ==
  LET m == Prop(h_req.body, "model")
  IN  IF m.t = "string" /\ Trim(m.v) # EmptyStr THEN Trim(m.v) ELSE DEFAULT_MODEL

Settled(i) == Len(h_calls) >= i /\ "result" \in DOMAIN h_calls[i]

\* the first upstream call failed with 404, 400 or a message matching a pattern
FirstFailedModelUnavailable ==
  /\ Settled(1)
  /\ IsFailure(h_calls[1].result)
  /\ \/ h_calls[1].result.status \in {400, 404}
     \/ TestModelPattern(h_calls[1].result.message)
     \/ TestNotFoundPattern(h_calls[1].result.message)

\* C1: a request for a non-default model whose first upstream call fails with
\* 404, 400 or a model / not-found message leads to exactly one further call, to
\* the default model with the same request body; when that call succeeds the
\* response is 200 with modelUsed = default and fallbackApplied = true.
C1_FallbackOnce ==
  (IsPost /\ AskedModel # DEFAULT_MODEL /\ FirstFailedModelUnavailable) =>
    /\ h_pc \in {"fallback", "done"}
    /\ Len(h_calls) = 2
    /\ h_calls[1].modelId = AskedModel
    /\ h_calls[2].modelId = DEFAULT_MODEL
    /\ h_calls[2].requestBody = h_calls[1].requestBody
    /\ h_calls[1].requestBody = buildRequestBody(BuildArgs(h_req.body))
    /\ (h_pc = "done" /\ IsOk(h_calls[2].result)) =>
         h_resp = <<[status |-> 200,
                     json |-> [reply |-> h_calls[2].result.text,
                               modelUsed |-> DEFAULT_MODEL,
                               fallbackApplied |-> TRUE]]>>

C1_Witness ==
  /\ h_pc = "done" /\ IsPost /\ AskedModel # DEFAULT_MODEL
  /\ FirstFailedModelUnavailable
  /\ h_calls[1].result.status = 400
  /\ h_calls[1].result.message = MsgQuota
  /\ Settled(2) /\ IsOk(h_calls[2].result)
  /\ h_resp[1].status = 200

\* the response is the failure of upstream call i
SurfacesCall(i) ==
  LET r == h_calls[i].result
  IN  /\ Len(h_resp) = 1
      /\ DOMAIN h_resp[1].json = {"error"}
      /\ IF IsThrown(r)
         THEN h_resp[1].status = 500 /\ h_resp[1].json.error = r.thrown
         ELSE h_resp[1].status = r.status /\ h_resp[1].json.error = r.message

\* C2: at most two upstream calls per request; the failure of the last call made
\* is the one surfaced (status and message, no fallbackApplied); a first failure
\* that is not model-unavailable, or a request for the default model (absent and
\* blank included), means exactly one call.
C2_BoundedAndSurfaced ==
  /\ Len(h_calls) <= 2
  /\ (h_pc = "done" /\ Settled(2) /\ ~IsOk(h_calls[2].result)) => SurfacesCall(2)
  /\ (h_pc = "done" /\ Settled(1) /\ ~IsOk(h_calls[1].result)
        /\ (AskedModel = DEFAULT_MODEL \/ ~FirstFailedModelUnavailable)) =>
       (Len(h_calls) = 1 /\ SurfacesCall(1))
  /\ (Settled(1) /\ AskedModel = DEFAULT_MODEL) => Len(h_calls) = 1

C2_Witness ==
  /\ h_pc = "done" /\ Settled(2)
  /\ IsFailure(h_calls[1].result) /\ IsFailure(h_calls[2].result)
  /\ h_calls[1].result.status = 404 /\ h_calls[2].result.status = 429
  /\ h_resp[1].status = 429

\* C3: a 200 response to a POST names the model of the call that produced the
\* reply; it is the requested model with fallbackApplied = false when the first
\* call succeeded, and fallbackApplied = true only for a default-model reply to a
\* request for another model.
C3_ReplyNamesModel ==
  (h_pc = "done" /\ IsPost /\ h_resp[1].status = 200) =>
    LET last == h_calls[Len(h_calls)]
        json == h_resp[1].json
    IN  /\ Len(h_calls) >= 1
        /\ IsOk(last.result)
        /\ json.reply = last.result.text
        /\ json.modelUsed = last.modelId
        /\ json.modelUsed \in {AskedModel, DEFAULT_MODEL}
        /\ IsOk(h_calls[1].result) =>
             (json.modelUsed = AskedModel /\ json.fallbackApplied = FALSE)
        /\ json.fallbackApplied =>
             (json.modelUsed = DEFAULT_MODEL /\ AskedModel # DEFAULT_MODEL)

C3_Witness ==
  /\ h_pc = "done" /\ IsPost /\ h_resp[1].status = 200
  /\ h_resp[1].json.fallbackApplied
  /\ AskedModel = S("gemini-2.5-pro")

(***************************************************************************)
(* Properties of the payload builder.                                      *)
(***************************************************************************)
IsClientInput == b_stage # "off" /\ b_in.kind = "client"

IsApiInput == b_stage # "off" /\ b_in.kind = "api"

NoDuplicateInline(parts) ==
  \A i, j \in 1..Len(parts) :
    (i < j /\ IsInlinePart(parts[i]) /\ IsInlinePart(parts[j])) =>
      parts[i].inline_data # parts[j].inline_data

\* C6: every turn the builder produces, on the client (buildGeminiParts over
\* collectImages) and on the server (buildRequestBody), holds each distinct
\* (mimeType, data) inline image exactly once.
C6_OneCopyPerImage ==
  /\ (IsClientInput /\ b_stage \in {"built", "served"}) => NoDuplicateInline(b_parts)
  /\ b_body # <<>> =>
       \A t \in 1..Len(b_body[1].contents) : NoDuplicateInline(b_body[1].contents[t].parts)

\* the normalisation leaves no text, no image and no turn
NothingSurvives(body) ==
  /\ ~IsNonBlankString(Prop(body, "userPrompt"))
  /\ sanitizeImageParts(Prop(body, "images")) = <<>>
  /\ sanitizeContents(Prop(body, "contents")) = <<>>

GreetingTurn == [role |-> S("user"), parts |-> <<TextPart(GREETING)>>]

\* C7: the request body always has at least one turn and every turn at least one
\* part; when nothing survives normalisation it is the single user turn with the
\* default greeting.  The client's part list is never empty either.
C7_NeverEmpty ==
  /\ b_body # <<>> =>
       /\ Len(b_body[1].contents) >= 1
       /\ \A t \in 1..Len(b_body[1].contents) : Len(b_body[1].contents[t].parts) >= 1
  /\ (b_body # <<>> /\ IsApiInput /\ NothingSurvives(b_in.body)) =>
       b_body[1].contents = <<GreetingTurn>>
  /\ (IsClientInput /\ b_stage \in {"built", "served"}) => Len(b_parts) >= 1

C7_Witness ==
  /\ b_body # <<>> /\ IsApiInput /\ NothingSurvives(b_in.body)
  /\ IsArray(Prop(b_in.body, "contents")) /\ Len(Prop(b_in.body, "contents").v) = 2
  /\ IsArray(Prop(b_in.body, "images")) /\ Len(Prop(b_in.body, "images").v) >= 1
  /\ b_body[1].contents = <<GreetingTurn>>

\* a part reduced to its kind and its text or image data
Proj(p) == IF IsTextPart(p) THEN <<"text", p.text>> ELSE <<"image", p.inline_data.data>>

RECURSIVE IsSubsequence(_, _)
\* a is b with some elements left out, the order kept
IsSubsequence(a, b) ==
  IF a = <<>> THEN TRUE
  ELSE IF b = <<>> THEN FALSE
  ELSE IF Head(a) = Head(b) THEN IsSubsequence(Tail(a), Tail(b))
  ELSE IsSubsequence(a, Tail(b))

IsPrefix(a, b) == Len(a) <= Len(b) /\ SubSeq(b, 1, Len(a)) = a

\* the valid text and image parts of a client part list, in the order supplied
SuppliedClientPart(part) ==
  IF part.t # "object" THEN <<>>
  ELSE IF Prop(part, "type") = StrV(S("text")) /\ IsNonBlankString(Prop(part, "text"))
  THEN <<<<"text", Trim(Prop(part, "text").v)>>>>
  ELSE IF Prop(part, "type") = StrV(S("image")) /\ IsNonBlankString(Prop(part, "data"))
  THEN <<<<"image", Trim(Prop(part, "data").v)>>>>
  ELSE <<>>

ValidInlineData(d) ==
  /\ IsString(d)
  /\ MatchesBase64(RemoveWhitespace(d.v))
  /\ StrLen(StripTrailingEq(RemoveWhitespace(d.v))) >= 2

\* the valid text and image parts of a request body's part list, in the order supplied
SuppliedApiPart(part) ==
  LET inline == IF Prop(part, "inline_data").t \in {"undefined", "null"}
                THEN Prop(part, "inlineData") ELSE Prop(part, "inline_data")
      d == IF IsString(Prop(inline, "data")) THEN Prop(inline, "data")
           ELSE Prop(inline, "base64")
  IN  IF part.t # "object" THEN <<>>
      ELSE IF IsString(Prop(part, "text"))
      THEN IF Trim(Prop(part, "text").v) # EmptyStr
           THEN <<<<"text", Trim(Prop(part, "text").v)>>>> ELSE <<>>
      ELSE IF ValidInlineData(d) THEN <<<<"image", RemoveWhitespace(d.v)>>>>
      ELSE <<>>

SuppliedApiTurn(turn) ==
  LET parts == Prop(turn, "parts")
      supplied == IF IsArray(parts) THEN FlatMapSeq(SuppliedApiPart, parts.v) ELSE <<>>
  IN  IF supplied = <<>> THEN <<>> ELSE <<supplied>>

\* the data of the images of an input list, trimmed, in input order
TrimmedData(image) ==
  IF IsString(Prop(image, "data")) THEN <<Trim(Prop(image, "data").v)>> ELSE <<>>

CompactData(image) ==
  IF IsString(Prop(image, "data")) THEN <<RemoveWhitespace(Prop(image, "data").v)>> ELSE <<>>

InlineData(p) == p.inline_data.data

\* text first (when there is one), then nothing but images
TextThenImages(parts, text) ==
  LET images == IF text = EmptyStr THEN parts ELSE Tail(parts)
  IN  /\ text # EmptyStr => (parts # <<>> /\ parts[1] = TextPart(text))
      /\ \A i \in 1..Len(images) : IsInlinePart(images[i])

PartsSupplied == IsClientInput /\ FlatMapSeq(SuppliedClientPart, b_in.parts.v) # <<>>

\* C8 on the client: supplied parts keep their order; without parts the text
\* comes first and the images follow in input order; images alone get no text.
C8_ClientOrder ==
  (IsClientInput /\ b_stage \in {"built", "served"}) =>
    LET out == MapSeq(Proj, b_parts)
        supplied == FlatMapSeq(SuppliedClientPart, b_in.parts.v)
        text == IF IsString(b_in.text) THEN Trim(b_in.text.v) ELSE EmptyStr
        images == IF text = EmptyStr THEN b_parts ELSE Tail(b_parts)
    IN  /\ PartsSupplied =>
             \E k \in {0, 1} :
               /\ k + Len(supplied) <= Len(out)
               /\ SubSeq(out, k + 1, k + Len(supplied)) = supplied
               /\ k = 1 => out[1] = <<"text", DerivedContent(b_in.text, b_in.parts)>>
               /\ \A i \in (k + Len(supplied) + 1)..Len(out) : out[i][1] = "image"
        /\ (~PartsSupplied /\ (text # EmptyStr \/ b_sanitized # <<>>)) =>
             /\ TextThenImages(b_parts, text)
             /\ IsSubsequence(MapSeq(InlineData, images),
                              FlatMapSeq(TrimmedData, b_in.images.v))
             /\ Len(images) = Len(b_sanitized)
        /\ (DerivedContent(b_in.text, b_in.parts) = EmptyStr /\ b_sanitized # <<>>) =>
             \A i \in 1..Len(b_parts) : IsInlinePart(b_parts[i])

\* C8 on the server: the turns of contents keep their valid parts in the order
\* supplied; without contents the single turn is the text, then the images in
\* input order; images alone get no text.
C8_ServerOrder ==
  (IsApiInput /\ b_body # <<>>) =>
    LET contents == b_body[1].contents
        rawContents == Prop(b_in.body, "contents")
        rawImages == Prop(b_in.body, "images")
        supplied == IF IsArray(rawContents) THEN FlatMapSeq(SuppliedApiTurn, rawContents.v)
                    ELSE <<>>
        prompt == Prop(b_in.body, "userPrompt")
        text == IF IsString(prompt) THEN Trim(prompt.v) ELSE EmptyStr
        images == IF text = EmptyStr THEN contents[1].parts ELSE Tail(contents[1].parts)
    IN  /\ supplied # <<>> =>
             /\ Len(contents) = Len(supplied)
             /\ \A t \in 1..Len(supplied) :
                  /\ IsPrefix(supplied[t], MapSeq(Proj, contents[t].parts))
                  /\ \A i \in (Len(supplied[t]) + 1)..Len(contents[t].parts) :
                       IsInlinePart(contents[t].parts[i])
        /\ (supplied = <<>> /\ ~NothingSurvives(b_in.body)) =>
             /\ Len(contents) = 1
             /\ contents[1].role = S("user")
             /\ TextThenImages(contents[1].parts, text)
             /\ IsArray(rawImages) =>
                  IsSubsequence(MapSeq(InlineData, images),
                                FlatMapSeq(CompactData, rawImages.v))
             /\ Len(images) = Len(sanitizeImageParts(rawImages))
        /\ (supplied = <<>> /\ text = EmptyStr /\ sanitizeImageParts(rawImages) # <<>>) =>
             \A i \in 1..Len(contents[1].parts) : IsInlinePart(contents[1].parts[i])

\* C8: structured parts keep the order supplied; otherwise one user turn of the
\* text followed by the images in input order; an image-only message has image
\* parts and no text part.
C8_OrderPreserved == C8_ClientOrder /\ C8_ServerOrder

C8_Witness ==
  /\ IsClientInput /\ b_stage = "built"
  /\ Len(b_in.parts.v) = 2
  /\ MapSeq(Proj, b_parts) = <<<<"image", DataB>>, <<"text", S("Hello")>>, <<"image", DataA>>>>

(***************************************************************************)
(* Properties of handleSendMessage.                                        *)
(***************************************************************************)
Sending == s_in # <<>>

OpIssued(op) == \E i \in 1..Len(s_ops) : s_ops[i] = op

OpBefore(first, second) ==
  \A i \in 1..Len(s_ops) : s_ops[i] = second => \E j \in 1..(i - 1) : s_ops[j] = first

\* a 2xx response that carries a non-empty reply
ReplyIsUsable == s_resp # <<>> /\ s_resp.kind = "ok" /\ s_resp.reply \notin {Undef, StrV(EmptyStr)}

\* C4: within one send the write of the user's message completes before the
\* /api/generate request is issued, the write of the assistant's reply is issued
\* only after a successful non-empty reply, and when generation fails no assistant
\* message is written and the stored conversation ends with the user's message.
C4_WritesAroundGeneration ==
  Sending =>
    /\ OpBefore("userWriteDone", "generate")
    /\ OpIssued("generate") => UserMessage(s_sends) \in Range(s_store[s_chatId])
    /\ OpIssued("assistantWrite") => ReplyIsUsable
    /\ (s_resp # <<>> /\ ~ReplyIsUsable) =>
         /\ ~OpIssued("assistantWrite")
         /\ AssistantMessage(s_sends) \notin Range(s_store[s_chatId])
         /\ s_store[s_chatId][Len(s_store[s_chatId])] = UserMessage(s_sends)

C4_Witness ==
  /\ Sending /\ s_pc = "returned"
  /\ s_resp # <<>> /\ s_resp.kind = "ok" /\ s_resp.reply = StrV(EmptyStr)
  /\ s_store[s_chatId] = <<UserMessage(1), AssistantMessage(1), UserMessage(2)>>

RECURSIVE TotalBytes(_, _)
TotalBytes(images, i) ==
  IF i > Len(images) THEN 0
  ELSE estimateBase64Bytes(Prop(images[i], "data")) + TotalBytes(images, i + 1)

\* the de-duplicated inline images of a message weigh more than the cap
Oversize(in) == TotalBytes(collectImages(in.images, in.parts), 1) > 900000

\* C5: a send whose de-duplicated inline images exceed 900,000 estimated bytes
\* throws before any network operation of that send (no probe, upload, store
\* write or generate request) and changes no conversation or generation state.
C5_OversizeRejected ==
  /\ []((Sending /\ Oversize(s_in)) => (s_pc = "thrown" /\ s_ops = <<>>))
  /\ [][(s_in = <<>> /\ s_in' # <<>> /\ Oversize(s_in')) =>
          (s_ui' = s_ui /\ s_store' = s_store /\ s_cors' = s_cors)]_vars

C5_Witness ==
  /\ Sending /\ s_pc = "thrown" /\ s_in.user /\ s_in.files = 1
  /\ Oversize(s_in)
  /\ Len(collectImages(s_in.images, s_in.parts)) = 2
  /\ \A i \in 1..2 : estimateBase64Bytes(Prop(collectImages(s_in.images, s_in.parts)[i], "data")) <= 900000
  /\ s_sends = 2 /\ s_ui.activeChatId = 1

(***************************************************************************)
(* Properties of uploadAttachmentsToStorage.                               *)
(***************************************************************************)
\* the call gave up after the last candidate, and every attempt it made on every
\* bucket failed with the cors classification
AllCorsExhausted ==
  /\ u_pc = "rejected"
  /\ u_bucket = 0
  /\ \A i \in 1..Len(u_tried) : u_tried[i].allCors

BucketsTried == [i \in 1..Len(u_tried) |-> u_tried[i].bucket]

NotPrimary(bucket) == bucket # primaryStorageBucket

\* the primary bucket first, then the configured fallbacks
PriorityOrder == <<primaryStorageBucket>> \o SelectSeq(FALLBACK_STORAGE_BUCKETS, NotPrimary)

ErrorCalls == {i \in 1..Len(u_calls) : u_calls[i].status = "error"}

\* what holds of the exhaustion whatever the order of the candidates
ExhaustedAndReported ==
  /\ \A i \in 1..Len(u_tried) : u_tried[i].attempts = 3
  /\ u_thrown = u_tried[Len(u_tried)].last
  /\ Cardinality(ErrorCalls) = 1

\* C9: when every attempt on every candidate bucket fails cors, the call has
\* tried every candidate in priority order, three attempts each, before it
\* raises; it raises the last error observed and reports 'error' exactly once.
C9_ExhaustsInPriorityOrder ==
  AllCorsExhausted => (BucketsTried = PriorityOrder /\ ExhaustedAndReported)

\* the same with the order of DEFAULT_STORAGE_CANDIDATES in place of the priority order
ExhaustsCandidateList ==
  AllCorsExhausted => (BucketsTried = DEFAULT_STORAGE_CANDIDATES /\ ExhaustedAndReported)

\* a failure the retry loop may answer with another attempt: cors, network or fetch-level
Transient(error) ==
  \/ classifyStorageError(error) \in {"cors", "network"}
  \/ error.name = "TypeError"
  \/ IsString(error.message) /\ Includes(error.message.v, S("Failed to fetch"))

Uploading == u_pc \in {"uploadBytes", "getDownloadURL", "wait"}

\* C10: at most 3 attempts per attachment and bucket; another attempt on the
\* same bucket only after a transient failure and the 3-second wait; a success
\* ends the attempts for that attachment on every bucket.
C10_BoundedRetries ==
  /\ Len(u_log) <= 3
  /\ \A i \in 1..Len(u_tried) : u_tried[i].attempts <= 3
  /\ \A i, j \in 1..Len(u_tried) : u_tried[i].bucket = u_tried[j].bucket => i = j
  /\ (Uploading /\ u_bucket # 0) =>
       \A i \in 1..Len(u_tried) : u_tried[i].bucket # TrimmedBucket(u_bucket)
  /\ \A k \in 2..Len(u_log) :
       /\ u_log[k - 1].state = "failed"
       /\ Transient(u_log[k - 1].error)
       /\ u_log[k].waited >= 3000
  /\ \A k \in 1..Len(u_log) : u_log[k].state = "ok" => (k = Len(u_log) /\ u_pc = "resolved")
  /\ Uploading => \A i \in 1..Len(u_results) : u_results[i].url.index # u_index
  /\ \A i, j \in 1..Len(u_results) : u_results[i].url.index = u_results[j].url.index => i = j

C10_Witness ==
  /\ u_pc = "resolved"
  /\ Len(u_results) = 2
  /\ Len(u_tried) = 1 /\ u_tried[1].attempts = 3
  /\ Len(u_log) = 3
  /\ u_log[1].error = ErrCanceled /\ u_log[2].error = ErrFetch /\ u_log[3].state = "ok"

FileCount == Cardinality({i \in 1..Len(u_batch) : u_batch[i].file})

\* C11: a failure that is neither retryable nor cors ends the call at once: it
\* is the last attempt of the batch, later attachments are never attempted and
\* the call rejects with that very error; a bucket is left for the next
\* candidate only on a cors failure of its third attempt.
C11_TerminalAborts ==
  /\ [](\A k \in 1..Len(u_log) :
          (u_log[k].state = "failed" /\ ~Transient(u_log[k].error)) =>
            /\ k = Len(u_log)
            /\ u_pc = "rejected"
            /\ u_thrown = u_log[k].error
            /\ \A i \in 1..Len(u_results) : u_results[i].url.index < u_index)
  /\ [](\A i \in 1..Len(u_tried) :
          /\ u_tried[i].attempts = 3
          /\ classifyStorageError(u_tried[i].last) = "cors")
  /\ [][u_pc = "rejected" => UNCHANGED uvars]_vars
  /\ [][(Uploading /\ Uploading' /\ u_index' = u_index /\ u_bucket' # u_bucket) =>
          /\ u_bucket' > u_bucket
          /\ Len(u_tried') = Len(u_tried) + 1
          /\ u_tried'[Len(u_tried')].bucket = TrimmedBucket(u_bucket)]_vars

C11_Witness ==
  /\ u_pc = "rejected"
  /\ u_thrown = ErrQuota
  /\ FileCount = 2 /\ u_index = 1 /\ u_results = <<>>
  /\ Len(u_tried) = 1
  /\ Len(u_log) = 2 /\ u_log[1].error = ErrFetch /\ u_log[2].error = ErrQuota

(***************************************************************************)
(* The classifier.                                                          *)
(***************************************************************************)
Classified == c_class \notin {"none", "off"}

LowerMessage(error) ==
  IF IsString(error.message) THEN ToLowerCase(error.message.v) ELSE EmptyStr

\* a cross-origin policy rejection, by its code or by what its message says
CrossOriginRejection(error) ==
  \/ Includes(LowerCode(error), S("cors"))
  \/ \E said \in { S("cors"), S("no access-control-allow-origin"), S("preflight"),
                   S("cross-origin") } : Includes(LowerMessage(error), said)

UnauthorizedError(error) == Includes(LowerCode(error), S("unauthorized"))

PermissionDenied(error) == Includes(LowerMessage(error), S("permission denied"))

\* a timeout, cancel or retry-limit error
NetworkError(error) ==
  \E said \in {S("retry-limit-exceeded"), S("canceled"), S("timeout")} :
    Includes(LowerCode(error), said)

\* C12: every error is classified by the taxonomy (no error at all is 'unknown';
\* a cross-origin rejection is 'cors'; only an unauthorized error is 'auth'; a
\* timeout, cancel or retry-limit error that is neither cross-origin nor
\* unauthorized nor permission-denied is 'network'; an error that is none of these
\* is 'unknown'), and an error classified 'auth' or 'unknown' is not retried.
C12_TaxonomyAndNoRetry ==
  /\ Classified =>
       /\ c_error = Null => c_class = "unknown"
       /\ c_error # Null =>
            /\ CrossOriginRejection(c_error) => c_class = "cors"
            /\ c_class = "auth" => UnauthorizedError(c_error)
            /\ ( /\ NetworkError(c_error)
                 /\ ~CrossOriginRejection(c_error)
                 /\ ~UnauthorizedError(c_error)
                 /\ ~PermissionDenied(c_error) ) => c_class = "network"
            /\ ( /\ ~NetworkError(c_error)
                 /\ ~CrossOriginRejection(c_error)
                 /\ ~UnauthorizedError(c_error)
                 /\ ~PermissionDenied(c_error) ) => c_class = "unknown"
  /\ c_retry = "yes" => c_class \notin {"auth", "unknown"}

\* the taxonomy alone, without the retry-limit code and without the retry decision
C12_RestOfTaxonomy ==
  (Classified /\ c_error # Null /\
   c_error.code # StrV(Words(<<"storage/", "retry-limit-exceeded">>))) =>
     /\ CrossOriginRejection(c_error) => c_class = "cors"
     /\ c_class = "auth" => UnauthorizedError(c_error)
     /\ ( /\ NetworkError(c_error)
          /\ ~CrossOriginRejection(c_error)
          /\ ~UnauthorizedError(c_error)
          /\ ~PermissionDenied(c_error) ) => c_class = "network"

\* the retry-limit code of the storage SDK is classified 'cors'
C12_RetryLimitIsCors ==
  /\ Classified
  /\ c_error = StorageError("FirebaseError", StrV(Words(<<"storage/", "retry-limit-exceeded">>)), Undef)
  /\ c_class = "cors"

\* a fetch-level TypeError is classified 'unknown' and retried
C12_UnknownRetried ==
  /\ c_error = ErrFetch
  /\ c_class = "unknown"
  /\ c_retry = "yes"

(***************************************************************************)
(* The reachability probe.                                                  *)
(***************************************************************************)
OpCount(op) == Cardinality({i \in 1..Len(s_ops) : s_ops[i] = op})

\* C13: in a send with file-bearing attachments the probe of the primary bucket
\* completes, with a positive answer, before any upload is attempted; when the
\* probe reports the endpoint unreachable no upload is attempted, every
\* file-bearing attachment is reported 'error' through the status callback, and
\* the send throws without a write to the document store and without a call of
\* the model.
C13_ProbeGatesUpload ==
  /\ [](Sending =>
          /\ OpIssued("upload") => s_in.files > 0
          /\ OpBefore("probe", "probeOk")
          /\ OpBefore("probe", "probeRefused")
          /\ OpBefore("probeOk", "upload"))
  /\ []((Sending /\ OpIssued("probeRefused")) =>
          /\ s_pc = "thrown"
          /\ s_in.files > 0
          /\ OpCount("statusError") = s_in.files
          /\ \A op \in {"upload", "addDoc", "userWrite", "generate", "assistantWrite"} :
               ~OpIssued(op))
  /\ [][(\E i \in 1..Len(s_ops') : s_ops'[i] = "probeRefused") => s_store' = s_store]_vars

C13_Witness ==
  /\ Sending /\ s_pc = "thrown"
  /\ s_in.files = 2
  /\ s_in.text # StrV(EmptyStr)
  /\ s_ops = <<"probe", "probeRefused", "statusError", "statusError">>
  /\ s_sends = 2 /\ Len(s_store) = 1 /\ Len(s_store[1]) = 2

(***************************************************************************)
(* The stored representation of a conversation.                             *)
(***************************************************************************)
HasUrl(image) == IsNonBlankString(Prop(image, "url"))

\* a stored image record: a non-empty url and nothing but metadata
StoredImageOk(image) ==
  /\ image.t = "object"
  /\ DOMAIN image.v[1] \subseteq {"url", "mime_type", "name", "size"}
  /\ IsString(Prop(image, "url"))
  /\ Prop(image, "url").v # EmptyStr

RECURSIVE UrlsOf(_)
\* the trimmed urls of the images that have one, in order
UrlsOf(images) ==
  IF images = <<>> THEN <<>>
  ELSE (IF HasUrl(Head(images)) THEN <<StrV(Trim(Prop(Head(images), "url").v))>> ELSE <<>>)
       \o UrlsOf(Tail(images))

\* C14: every stored message has imageBase64 = null and an images list whose
\* records have a non-empty url and only url / mime_type / name / size (no inline
\* data); the list holds exactly the source images that have a url, in order.
C14_StoredShape ==
  /\ Len(d_doc) = Len(d_src)
  /\ \A i \in 1..Len(d_doc) :
       LET stored == Prop(d_doc[i], "images")
           source == Prop(d_src[i], "images")
       IN  /\ "imageBase64" \in DOMAIN d_doc[i].v[1]
           /\ Prop(d_doc[i], "imageBase64") = Null
           /\ IsArray(stored)
           /\ \A j \in 1..Len(stored.v) : StoredImageOk(stored.v[j])
           /\ [j \in 1..Len(stored.v) |-> Prop(stored.v[j], "url")]
                = (IF IsArray(source) THEN UrlsOf(source.v) ELSE <<>>)

C14_Witness ==
  /\ d_pc = "stored"
  /\ Len(d_hist) = 1
  /\ d_src = <<UiMessage(<<UploadedImage, Obj([data |-> StrV(SmallData)])>>, StrV(SmallData))>>
  /\ Len(Prop(d_doc[1], "images").v) = 1
  /\ DOMAIN Prop(d_doc[1], "images").v[1].v[1] = {"url", "mime_type", "name", "size"}

\* C15: serialising a message, reading it back through the snapshot listener
\* and serialising it again gives the stored representation of the first
\* serialisation, however often the cycle is repeated.
C15_RoundTripStable ==
  \A i, j \in 1..Len(d_hist) : d_hist[i] = d_hist[j]

\* from the second write on, the stored representation no longer changes
C15_LaterCyclesStable ==
  \A i, j \in 2..Len(d_hist) : d_hist[i] = d_hist[j]

\* an uploaded image's size is stored by the first write and gone after the second
C15_SizeLost ==
  /\ Len(d_hist) = 2
  /\ d_hist[1] = serializeMessagesForStorage(Arr(<<UiMessage(<<UploadedImage>>, Null)>>))
  /\ Prop(Prop(d_hist[1][1], "images").v[1], "size") = NumV(12340)
  /\ Prop(Prop(d_hist[2][1], "images").v[1], "size") = Undef
  /\ Prop(Prop(d_hist[2][1], "images").v[1], "url") = Prop(Prop(d_hist[1][1], "images").v[1], "url")

\* an image stored without a MIME type gets image/png after the second write
C15_MimeTypeAdded ==
  /\ Len(d_hist) = 2
  /\ Prop(Prop(d_hist[1][1], "images").v[1], "mime_type") = Undef
  /\ Prop(Prop(d_hist[2][1], "images").v[1], "mime_type") = StrV(DEFAULT_MIME)

(***************************************************************************)
(* The transcoder.                                                          *)
(***************************************************************************)
Transcoded == t_gen.state = "resolved"

JpegSteps(d) ==
  << [maxDimension |-> d, mime |-> JPEG, quality |-> <<88>>],
     [maxDimension |-> d, mime |-> JPEG, quality |-> <<75>>],
     [maxDimension |-> d, mime |-> JPEG, quality |-> <<65>>],
     [maxDimension |-> d, mime |-> JPEG, quality |-> <<50>>] >>

\* the original format as it is, then JPEG at the four qualities
StatedSteps(type, d) ==
  <<[maxDimension |-> d, mime |-> type, quality |-> <<>>]>> \o JpegSteps(d)

StatedLadder(type) ==
  StatedSteps(type, 1600) \o StatedSteps(type, 1280) \o StatedSteps(type, 1024)
    \o StatedSteps(type, 720) \o StatedSteps(type, 512)

\* a JPEG file has no candidate of its own: its four JPEG steps are tried twice
ActualSteps(type, d) ==
  IF type = JPEG THEN JpegSteps(d) \o JpegSteps(d) ELSE StatedSteps(type, d)

ActualLadder(type) ==
  ActualSteps(type, 1600) \o ActualSteps(type, 1280) \o ActualSteps(type, 1024)
    \o ActualSteps(type, 720) \o ActualSteps(type, 512)

EstimatedSize(data) == estimateBase64Bytes(StrV(data))

Fits(k) == EstimatedSize(Encoded(t_image, t_calls[k])) <= 900000

\* of the candidates encoded along ladder, the first that fits is returned and is
\* the last one encoded; when none fits the whole ladder was encoded and the one
\* returned is among the smallest
FirstFitOrSmallest(ladder) ==
  /\ Len(t_calls) >= 1
  /\ t_calls = SubSeq(ladder, 1, Len(t_calls))
  /\ Len(t_attempts) = Len(t_calls)
  /\ IF \E k \in 1..Len(t_calls) : Fits(k)
     THEN /\ Fits(Len(t_calls))
          /\ \A k \in 1..(Len(t_calls) - 1) : ~Fits(k)
          /\ t_gen.value.data = Encoded(t_image, t_calls[Len(t_calls)])
          /\ t_gen.value.mimeType = t_calls[Len(t_calls)].mime
     ELSE /\ Len(t_calls) = Len(ladder)
          /\ \E k \in 1..Len(t_calls) :
               /\ t_gen.value.data = Encoded(t_image, t_calls[k])
               /\ t_gen.value.mimeType = t_calls[k].mime
          /\ \A k \in 1..Len(t_calls) :
               EstimatedSize(t_gen.value.data) <= EstimatedSize(Encoded(t_image, t_calls[k]))

\* C16 as stated: the ladder is, for each maximum dimension 1600, 1280, 1024,
\* 720, 512, the original format and then JPEG at 0.88, 0.75, 0.65, 0.5; the
\* first candidate of at most 900,000 estimated bytes is returned, else one of
\* minimum estimated size.
C16_LadderAsStated ==
  Transcoded => FirstFitOrSmallest(StatedLadder(t_file.type))

\* C16: the same selection over the ladder the code walks, which for a JPEG
\* file is JPEG at 0.88, 0.75, 0.65, 0.5 twice per dimension, with no candidate
\* encoded without a quality.
C16_FirstFitOrSmallest ==
  Transcoded => FirstFitOrSmallest(ActualLadder(t_file.type))

C16_Witness ==
  /\ Transcoded
  /\ t_file.type = JPEG
  /\ Len(t_calls) = 40
  /\ t_gen.value.data = <<Run("A", 1200004)>>
  /\ t_attempts[40].bytes = 1050000
  /\ t_attempts[1].bytes = 1200000

\* a PNG file whose fourth dimension is the first to fit, exactly at the cap
C16_FitsMidLadder ==
  /\ Transcoded
  /\ t_file.type = PNG
  /\ Len(t_calls) = 16
  /\ t_attempts[11].bytes = 900001
  /\ EstimatedSize(t_gen.value.data) = 900000

\* the unmodified direct read of the file, under the file's own MIME type
IsDirectRead(result) ==
  /\ result.data = DirectRead(t_file.size)
  /\ result.mimeType = t_file.type

LastRead == t_reads[Len(t_reads)]

\* C17: processImageFile rejects only when a direct read of the file has just
\* failed; when the image cannot be decoded or compressed, what it returns is
\* the unmodified direct read under the file's own MIME type; a file of at most
\* 70% of the cap whose direct read succeeds with an estimate within the cap is
\* returned as read, and generateCompressedBase64 is never called for it.
C17_FallsBackToDirectRead ==
  /\ t_pc = "rejected" => (t_reads # <<>> /\ LastRead = "fail")
  /\ (t_pc = "returned" /\ t_gen.state = "rejected") =>
       (IsDirectRead(t_result) /\ LastRead = "ok")
  /\ (t_pc = "returned" /\ t_gen.state = "resolved") =>
       \/ t_result = [data |-> t_gen.value.data, mimeType |-> t_gen.value.mimeType]
            /\ t_result.data # EmptyStr
       \/ IsDirectRead(t_result) /\ LastRead = "ok"
  /\ ( /\ t_file # <<>> /\ t_file.size * 10 <= 900000 * 7
       /\ t_reads # <<>> /\ t_reads[1] = "ok"
       /\ EstimatedSize(DirectRead(t_file.size)) <= 900000 ) =>
       /\ t_pc = "returned"
       /\ IsDirectRead(t_result)
       /\ t_reads = <<"ok">>
       /\ t_gen.state = "none" /\ t_calls = <<>>

C17_Witness ==
  /\ t_pc = "returned"
  /\ t_file = [type |-> PNG, size |-> 5000000]
  /\ ~t_image.decodes
  /\ t_gen.state = "rejected"
  /\ t_reads = <<"ok">>
  /\ t_result = [data |-> <<Run("A", 6666667), Run("=", 1)>>, mimeType |-> PNG]

\* a small file is returned as read
C17_SmallFileAsRead ==
  /\ t_pc = "returned"
  /\ t_file = [type |-> WEBP, size |-> 630000]
  /\ t_reads = <<"ok">>
  /\ t_gen.state = "none"
  /\ t_result = [data |-> <<Run("A", 840000)>>, mimeType |-> WEBP]

(***************************************************************************)
(* The composer.                                                            *)
(***************************************************************************)
SendsRunning == {i \in 1..Len(k_sends) : Running(k_sends[i])}

\* C18: at most one send is in flight at a time, and while one is in flight
\* at least one of isGenerating / isUploading / isProcessingFiles is set, so
\* that the submit button is disabled.
C18_OneSendInFlight ==
  /\ Cardinality(SendsRunning) <= 1
  /\ SendsRunning # {} =>
       (k_flags.isGenerating \/ k_flags.isUploading \/ k_flags.isProcessingFiles)

\* a send is uploading and the submit button is enabled
C18_EnabledWhileUploading ==
  /\ Len(k_sends) = 1 /\ k_sends[1].phase = "uploading"
  /\ ~SubmitDisabled
  /\ ~k_supports /\ k_attachments = 0

\* two sends are in flight
C18_TwoInFlight ==
  /\ Len(k_sends) = 2
  /\ k_sends[1].phase = "uploading"
  /\ k_sends[2].phase = "generating"

\* a send without attachments keeps the button disabled from start to end
C18_TextSendsGuarded ==
  \A i \in SendsRunning :
    (\A j \in 1..Len(k_sends) : ~k_sends[j].images) => k_flags.isGenerating

(***************************************************************************)
(* The spellings of the generation parameters.                              *)
(***************************************************************************)
OtherSpelling(name) ==
  CASE name = "top_p" -> "topP"
    [] name = "topP" -> "top_p"
    [] name = "max_output_tokens" -> "maxOutputTokens"
    [] name = "maxOutputTokens" -> "max_output_tokens"
    [] OTHER -> name

\* the same request body with every generation parameter under its other spelling
Respelled(body) ==
  LET fields == body.v[1]
  IN  Obj([k \in {OtherSpelling(name) : name \in DOMAIN fields} |-> fields[OtherSpelling(k)]])

\* C19: a request that supplies a generation parameter under its snake_case
\* spelling and the request that supplies the same value under its camelCase
\* spelling give the same generationConfig in the upstream request body.
C19_SpellingsAgree ==
  h_body # <<>> =>
    h_body[1].generationConfig
      = buildRequestBody(BuildArgs(Respelled(h_req.body))).generationConfig

\* max_output_tokens is not read: the upstream request carries the default
C19_SnakeCaseLimitIgnored ==
  /\ h_body # <<>>
  /\ Prop(h_req.body, "max_output_tokens") = NumV(5120)
  /\ Prop(h_req.body, "top_p") = NumV(5)
  /\ h_body[1].generationConfig.topP = NumV(5)
  /\ h_body[1].generationConfig.maxOutputTokens = NumV(10240)

\* topP is not read: the upstream request carries the default
C19_CamelCaseTopPIgnored ==
  /\ h_body # <<>>
  /\ Prop(h_req.body, "topP") = NumV(5)
  /\ Prop(h_req.body, "maxOutputTokens") = NumV(5120)
  /\ h_body[1].generationConfig.topP = NumV(9)
  /\ h_body[1].generationConfig.maxOutputTokens = NumV(5120)

(***************************************************************************)
(* The access-token cache.                                                  *)
(***************************************************************************)
HasToken == g_cache # <<>> /\ g_cache.token # Null

\* the cached token is more than 60 seconds from its recorded expiry
FarFromExpiry == HasToken /\ g_cache.expiry - g_now > 60

CallStarts == Len(g_calls') = Len(g_calls) + 1

ExchangeFails ==
  \E i \in 1..Len(g_calls) :
    g_calls[i].phase = "exchanging" /\ g_calls'[i].phase = "thrown"

\* C20: a token exchange is requested only when no token is cached or the cached
\* token is within 60 seconds of its recorded expiry; a call that finds a token
\* further from its expiry returns that token and requests nothing; whenever the
\* cache is written the recorded expiry is at most 3600 seconds ahead; and a
\* failed exchange leaves the cached token and expiry as they were.
C20_TokenCache ==
  /\ [][g_exchanges' # g_exchanges => ~FarFromExpiry]_vars
  /\ [][(CallStarts /\ FarFromExpiry) =>
          /\ g_exchanges' = g_exchanges
          /\ g_calls'[Len(g_calls')].phase = "returned"
          /\ g_calls'[Len(g_calls')].value = g_cache.token
          /\ g_cache' = g_cache]_vars
  /\ [][g_cache' # g_cache => g_cache'.expiry - g_now <= 3600]_vars
  /\ [](HasToken => g_cache.expiry - g_now <= 3600)
  /\ [][ExchangeFails => g_cache' = g_cache]_vars

C20_Witness ==
  /\ Len(g_calls) = 3
  /\ g_calls[1] = TokenCall(0, "returned", 1, TokenOf(1))
  /\ g_calls[2] = TokenCall(3480, "returned", 0, TokenOf(1))
  /\ g_calls[3] = TokenCall(3540, "thrown", 2, Null)
  /\ g_cache = [token |-> TokenOf(1), expiry |-> 3600]
  /\ g_exchanges = 2

(***************************************************************************)
(* The cross-origin headers of the handler.                                 *)
(***************************************************************************)
OriginListed == h_req.origin # "" /\ h_req.origin \in Range(ALLOWED_ORIGINS)

\* C30: whatever the request's Origin header and method, the
\* Access-Control-Allow-Origin header the handler sets is a member of the
\* allow-list: the request's origin when it is listed, the first listed origin
\* otherwise; an origin outside the list is never reflected back.
C30_AllowOriginListed ==
  h_req # <<>> =>
    /\ Len(h_headers) = 1
    /\ h_headers[1].allowOrigin \in Range(ALLOWED_ORIGINS)
    /\ h_headers[1].allowOrigin =
         IF OriginListed THEN h_req.origin ELSE ALLOWED_ORIGINS[1]

C30_Witness ==
  /\ h_req # <<>>
  /\ h_req.origin = "https://evil.example"
  /\ h_req.method = "GET"
  /\ h_resp # <<>>
  /\ h_headers[1].allowOrigin = ALLOWED_ORIGINS[1]

C30_ListedOriginEchoed ==
  /\ h_req # <<>>
  /\ h_req.origin = ALLOWED_ORIGINS[5]
  /\ h_req.method = "OPTIONS"
  /\ h_headers[1].allowOrigin = ALLOWED_ORIGINS[5]

(***************************************************************************)
(* The byte estimate.                                                       *)
(***************************************************************************)
RECURSIVE TrailingPadding(_)
\* how many '=' characters end the string
TrailingPadding(s) ==
  IF s = <<>> \/ s[Len(s)].c # "=" THEN 0
  ELSE s[Len(s)].n + TrailingPadding(SubSeq(s, 1, Len(s) - 1))

\* base64 text: a multiple of four characters, of which the last 0, 1 or 2 are
\* '=' and no other is
WellFormedBase64(x) ==
  /\ IsString(x)
  /\ StrLen(x.v) % 4 = 0
  /\ TrailingPadding(x.v) \in 0..2
  /\ \A i \in 1..Len(x.v) : x.v[i].c = "=" => i = Len(x.v)

\* C29: for well-formed base64 text estimateBase64Bytes returns the decoded
\* byte count, 3 * (length / 4) less the number of padding characters; for an
\* empty string and for a value that is no string it returns 0.
C29_ExactOnWellFormed ==
  e_out # <<>> =>
    /\ WellFormedBase64(e_in) =>
         e_out[1] = 3 * (StrLen(e_in.v) \div 4) - TrailingPadding(e_in.v)
    /\ (~IsString(e_in) \/ e_in.v = EmptyStr) => e_out[1] = 0

C29_Witness ==
  /\ e_in = StrV(<<Run("A", 1199998), Run("=", 2)>>)
  /\ e_out = <<899998>>

C29_OnePadding ==
  /\ e_in = StrV(<<Run("A", 7), Run("=", 1)>>)
  /\ e_out = <<5>>

C29_NotAString ==
  /\ e_in = Obj([data |-> StrV(S("AAAA"))])
  /\ e_out = <<0>>

(***************************************************************************)
(* The records uploadAttachmentsToStorage returns.                          *)
(***************************************************************************)
\* positions of the attachments that carry a File, in attachment order
RECURSIVE FilePositions(_, _)
FilePositions(batch, i) ==
  IF i > Len(batch) THEN <<>>
  ELSE (IF batch[i].file THEN <<i>> ELSE <<>>) \o FilePositions(batch, i + 1)

RecordFields == {"url", "mimeType", "name", "size", "bucket"}

\* C22: when the call resolves, results holds exactly one record of the fields
\* url, mimeType, name, size and bucket for every attachment that carries a
\* File, in attachment order; and at no moment is an attachment without a File
\* the one being uploaded or reported through the status callback.
C22_OneRecordPerFile ==
  /\ u_pc = "resolved" =>
       LET files == FilePositions(u_batch, 1)
       IN  /\ Len(u_results) = Len(files)
           /\ \A j \in 1..Len(files) :
                /\ DOMAIN u_results[j] = RecordFields
                /\ u_results[j].url.index = files[j]
                /\ u_results[j].url.bucket = u_results[j].bucket
                /\ u_results[j].bucket \in {Trim(c) : c \in Range(DEFAULT_STORAGE_CANDIDATES)}
                /\ u_results[j].size = Prop(AttachmentFields(u_batch[files[j]].id).file, "size")
  /\ u_pc \notin {"off", "idle"} /\ (u_index # 0 \/ u_calls # <<>>) =>
       /\ u_index \in 1..Len(u_batch)
       /\ u_batch[u_index].file

C22_Witness ==
  /\ u_pc = "resolved"
  /\ u_batch = <<Attachment("n", FALSE), Attachment("a", TRUE)>>
  /\ Len(u_results) = 1
  /\ u_results[1].url.index = 2
  /\ u_results[1].mimeType = S("image/png")
  /\ u_results[1].name = StrV(S("a.png"))
  /\ u_calls[Len(u_calls)].status = "success"

C22_TwoRecordsInOrder ==
  /\ u_pc = "resolved"
  /\ Len(u_results) = 2
  /\ u_results[1].url.index = 1
  /\ u_results[2].url.index = 2
  /\ u_results[2].mimeType = S("image/jpeg")
  /\ u_results[2].name = StrV(S("IMG_2"))

(***************************************************************************)
(* The 'error' reports of a failed upload.                                  *)
(***************************************************************************)
StatusPositions(status) == {i \in 1..Len(u_calls) : u_calls[i].status = status}

\* C25: when the call rejects, the status callback has been invoked with 'error'
\* exactly once for the attachment whose upload failed, whatever the class of
\* the failure, and no 'error' follows a 'success' of the same attachment.
C25_ErrorReportedOnce ==
  /\ u_pc = "rejected" => Cardinality(StatusPositions("error")) = 1
  /\ \A i \in StatusPositions("success"), j \in StatusPositions("error") : j < i

\* what holds instead: one report when every bucket was left behind after a
\* cross-origin failure, two when an attempt ended the call
C25_OnceOrTwice ==
  /\ u_pc = "rejected" =>
       Cardinality(StatusPositions("error")) = IF u_bucket = 0 THEN 1 ELSE 2
  /\ \A i \in StatusPositions("success"), j \in StatusPositions("error") : j < i

C25_ReportedTwice ==
  /\ u_pc = "rejected"
  /\ u_batch = <<Attachment("a", TRUE)>>
  /\ u_thrown = ErrAuthDomain
  /\ classifyStorageError(u_thrown) = "auth"
  /\ Len(u_calls) = 3
  /\ u_calls[2].status = "error" /\ u_calls[3].status = "error"

C25_ReportedOnceAfterBuckets ==
  /\ u_pc = "rejected"
  /\ u_bucket = 0
  /\ Cardinality(StatusPositions("error")) = 1

(***************************************************************************)
(* The pending attachments.                                                 *)
(***************************************************************************)
SamePair(a, b) == a.mimeType = b.mimeType /\ a.data = b.data

\* C21: whatever files were selected, removed, cleared and restored, no two
\* attachments of the pending list have the same mimeType and data, and what
\* the last merge rejected as a duplicate has the mimeType and data of an
\* attachment that was in the list when it was rejected.
C21_NoDuplicateSignature ==
  /\ \A i, j \in 1..Len(a_list) : SamePair(a_list[i], a_list[j]) => i = j
  /\ \A k \in 1..Len(a_rejected) :
       \E i \in 1..Len(a_rejected[k].against) :
         SamePair(a_rejected[k].attachment, a_rejected[k].against[i])

C21_Witness ==
  /\ a_mounted
  /\ Len(a_list) = 2
  /\ a_list[1].mimeType = PNG /\ a_list[1].data = DataA
  /\ a_list[2].mimeType = ICON /\ a_list[2].data = DataA
  /\ Len(a_rejected) = 1
  /\ a_rejected[1].attachment.previewUrl = 3
  /\ a_urls = <<"live", "live", "revoked">>

C21_DuplicateOfRestored ==
  /\ a_mounted
  /\ Len(a_list) = 1
  /\ a_list[1].id = 1 /\ a_list[1].previewUrl = 2
  /\ Len(a_rejected) = 1
  /\ a_rejected[1].against = a_list
  /\ a_urls = <<"revoked", "live", "revoked">>

C21_BothOfASelectionKept ==
  /\ Len(a_list) = 2
  /\ a_list[1].data = DataA /\ a_list[2].data = DataB
  /\ a_list[1].mimeType = PNG /\ a_list[2].mimeType = PNG
  /\ a_session = Serializable(a_list)

\* C27: the clean-up a completed send scheduled empties the textarea and the
\* list only of what was there when that send completed: text typed and
\* attachments added after the completion are not discarded by it.
C27_CleanUpTakesOnlyTheSend ==
  [][\A n \in a_timers \ a_timers' :
       /\ (a_input # <<>> /\ a_input' = <<>>) => a_input.added < n
       /\ \A k \in 1..Len(a_list) :
            (\A j \in 1..Len(a_list') : a_list'[j].id # a_list[k].id) => a_list[k].added < n]_vars

\* what holds of the clean-up instead: it empties the textarea and the list
C27_CleanUpEmpties ==
  [][a_timers' # a_timers /\ a_timers' \subseteq a_timers =>
       a_input' = <<>> /\ a_list' = <<>> /\ a_session' = <<>>]_vars

C27_TypedAfterCompletion ==
  /\ a_timers = {1}
  /\ a_phase = "idle"
  /\ a_input = [added |-> 1]

C27_AddedAfterCompletion ==
  /\ a_timers = {1}
  /\ \E k \in 1..Len(a_list) : a_list[k].added = 1

\* C28: every object URL created for a preview is live only while its
\* attachment is in the pending list of the mounted component, or while the
\* selection it belongs to is still being processed.
C28_PreviewsReleased ==
  \A h \in 1..Len(a_urls) :
    a_urls[h] = "live" =>
      \/ a_mounted /\ \E k \in 1..Len(a_list) : a_list[k].previewUrl = h
      \/ a_proc # <<>> /\ \E k \in 1..Len(a_proc.previews) : a_proc.previews[k] = h

C28_LeakAfterFailure ==
  /\ a_mounted
  /\ a_proc = <<>>
  /\ a_list = <<>>
  /\ a_stray = 0
  /\ a_urls = <<"live">>

C28_ReleasedOnRemoval ==
  /\ a_mounted
  /\ a_list = <<>>
  /\ a_urls = <<"revoked">>
  /\ a_done = 0

(***************************************************************************)
(* The saved preferences.                                                   *)
(***************************************************************************)
\* C23: a change of the settings under a signed-in user whose settings are
\* loaded leaves exactly one write pending, 500 ms ahead and carrying the new
\* values, whatever was pending before; so at most one write is ever pending,
\* it is for the signed-in user and carries the current settings, and no write
\* is pending or issued with no user signed in or with isSettingsLoaded false.
C23_DebouncedSave ==
  /\ [][(p_settings' # p_settings /\ p_user' # 0 /\ p_loaded') =>
          p_timers' = {SaveTimer(p_user', p_settings')}]_vars
  /\ [](/\ Cardinality(p_timers) <= 1
        /\ \A timer \in p_timers :
             /\ p_user # 0 /\ p_loaded
             /\ timer = SaveTimer(p_user, p_settings)
             /\ timer.delay = 500
        /\ \A i \in 1..Len(p_writes) :
             /\ p_writes[i].user # 0 /\ p_writes[i].loaded
             /\ p_writes[i].uid = p_writes[i].user
             /\ p_writes[i].latest)

C23_Witness ==
  /\ p_user = 1
  /\ p_session = 1
  /\ p_settings.model = StrV(DEFAULT_MODEL)
  /\ p_settings.temperature = NumV(2)
  /\ p_timers = {}
  /\ Len(p_writes) = 1
  /\ p_writes[1].preferences = PreferencesOf(p_settings)
  /\ p_store[1] = PreferencesOf(p_settings)

\* C26: every write to a user's preferences is issued after the load started
\* by that user's sign-in has settled.
C26_WritesOwnSettings ==
  \A i \in 1..Len(p_writes) : p_writes[i].ownLoad

C26_WroteOthersSettings ==
  /\ p_user = 2
  /\ LoadOf(2, 2) \in p_loads
  /\ Len(p_writes) = 1
  /\ p_writes[1].uid = 2
  /\ p_writes[1].preferences.model = StrV(S("gemini-2.5-pro"))
  /\ p_store[2] = p_writes[1].preferences

C26_OwnSettingsWritten ==
  /\ p_user = 2
  /\ p_loads = {}
  /\ Len(p_writes) = 1
  /\ p_writes[1].uid = 2
  /\ p_writes[1].ownLoad

(***************************************************************************)
(* The end of a send.                                                       *)
(***************************************************************************)
\* the promise of simulateStreaming is pending and its interval was cleared
StreamingAbandoned == s_pc = "stream" /\ ~s_ui.timer

\* C24: a send that set isGenerating eventually resets it, and once the reply
\* is being streamed the write of the assistant's reply eventually follows,
\* whatever the user does meanwhile.
C24_SendsComplete ==
  /\ (s_pc # "off" /\ s_ui.isGenerating) ~> (~s_ui.isGenerating)
  /\ (s_pc = "stream") ~> (s_pc = "writeAssistant")

\* what holds instead: the send completes unless its streaming was abandoned
C24_CompletesUnlessAbandoned ==
  /\ (s_pc # "off" /\ s_ui.isGenerating) ~> (~s_ui.isGenerating \/ StreamingAbandoned)
  /\ (s_pc = "stream") ~> (s_pc = "writeAssistant" \/ StreamingAbandoned)

\* and an abandoned streaming is never resumed
C24_AbandonedForGood ==
  [][StreamingAbandoned => StreamingAbandoned' /\ s_ui'.isGenerating /\ s_store' = s_store]_vars

C24_Abandoned ==
  /\ StreamingAbandoned
  /\ s_ui.isGenerating
  /\ s_sends = 1
  /\ s_ui.activeChatId = 1

=============================================================================
